---- MODULE Spec2Model ----
(***************************************************************************)
(* Model of the Atlassian Marketplace compatibility checker:               *)
(*   - the version engine, URL helpers and result builder of               *)
(*     utils/scraper.js as operators over strings,                         *)
(*   - GET /api/check-compatibility (server) driving checkCompatibility,   *)
(*     fetchAllVersions and the three acquisition tiers as one sequential  *)
(*     asynchronous control flow; every await is a step of its own and     *)
(*     the outcome of every network / browser call is chosen by the        *)
(*     environment.                                                        *)
(* JavaScript strings are TLA+ strings; null / undefined is the string     *)
(* Null, which no input contains.                                          *)
(***************************************************************************)
EXTENDS Integers, Sequences, FiniteSets, TLC

\* ------------------------------------------------------------------------
\*  JavaScript string helpers
\* ------------------------------------------------------------------------

Null == "<null>"

\* !x for a string-or-null value
Falsy(x) == x = Null \/ x = ""

Ch(s, k) == SubSeq(s, k, k)

DigitChars == "0123456789"
UpperChars == "ABCDEFGHIJKLMNOPQRSTUVWXYZ"
LowerChars == "abcdefghijklmnopqrstuvwxyz"
\* the characters the model's inputs use, in UTF-16 code unit order
CodeOrder == " &-./0123456789:<=>?ABCDEFGHIJKLMNOPQRSTUVWXYZ_abcdefghijklmnopqrstuvwxyz"

RECURSIVE IndexOf(_, _, _)
\* 1-based position of character c in s at or after position k; 0 if absent
IndexOf(s, c, k) ==
  IF k > Len(s) THEN 0
  ELSE IF Ch(s, k) = c THEN k
  ELSE IndexOf(s, c, k + 1)

CharsOf(s) == {Ch(s, k) : k \in 1..Len(s)}

DigitSet == CharsOf(DigitChars)
UpperSet == CharsOf(UpperChars)
AlnumSet == CharsOf(DigitChars) \cup CharsOf(UpperChars) \cup CharsOf(LowerChars)

\* character tables: value of a digit, lower-case form, code unit rank
DigitValueOf == [c \in DigitSet |-> IndexOf(DigitChars, c, 1) - 1]
LowerOf      == [c \in UpperSet |-> Ch(LowerChars, IndexOf(UpperChars, c, 1))]
CharCodeOf   == [c \in CharsOf(CodeOrder) |-> IndexOf(CodeOrder, c, 1)]

IsDigit(c) == c \in DigitSet
IsAlnum(c) == c \in AlnumSet
DigitVal(c) == DigitValueOf[c]
CharCode(c) == CharCodeOf[c]
LowerChar(c) == IF c \in UpperSet THEN LowerOf[c] ELSE c

RECURSIVE LowerFrom(_, _)
LowerFrom(s, k) ==
  IF k > Len(s) THEN "" ELSE LowerChar(Ch(s, k)) \o LowerFrom(s, k + 1)

\* s.toLowerCase()
ToLowerCase(s) == LowerFrom(s, 1)

RECURSIVE FirstNonSpace(_, _)
FirstNonSpace(s, k) ==
  IF k <= Len(s) /\ Ch(s, k) = " " THEN FirstNonSpace(s, k + 1) ELSE k

RECURSIVE LastNonSpace(_, _)
LastNonSpace(s, k) ==
  IF k >= 1 /\ Ch(s, k) = " " THEN LastNonSpace(s, k - 1) ELSE k

\* s.trim()
Trim(s) == SubSeq(s, FirstNonSpace(s, 1), LastNonSpace(s, Len(s)))

RECURSIVE StrLessFrom(_, _, _)
StrLessFrom(a, b, k) ==
  IF k > Len(b) THEN FALSE
  ELSE IF k > Len(a) THEN TRUE
  ELSE IF Ch(a, k) = Ch(b, k) THEN StrLessFrom(a, b, k + 1)
  ELSE CharCode(Ch(a, k)) < CharCode(Ch(b, k))

\* a < b on JavaScript strings (code unit order)
StrLess(a, b) == StrLessFrom(a, b, 1)

RECURSIVE SplitFrom(_, _, _)
SplitFrom(s, c, start) ==
  IF IndexOf(s, c, start) = 0 THEN <<SubSeq(s, start, Len(s))>>
  ELSE <<SubSeq(s, start, IndexOf(s, c, start) - 1)>>
       \o SplitFrom(s, c, IndexOf(s, c, start) + 1)

\* s.split(c) for a one-character separator
Split(s, c) == SplitFrom(s, c, 1)

\* s.startsWith(p)
StartsWith(s, p) == Len(s) >= Len(p) /\ SubSeq(s, 1, Len(p)) = p

RECURSIVE IncludesFrom(_, _, _)
IncludesFrom(s, p, k) ==
  IF k + Len(p) - 1 > Len(s) THEN FALSE
  ELSE SubSeq(s, k, k + Len(p) - 1) = p \/ IncludesFrom(s, p, k + 1)

\* s.includes(p)
Includes(s, p) == IncludesFrom(s, p, 1)

RECURSIVE Join(_, _)
\* list.join(sep)
Join(list, sep) ==
  IF list = <<>> THEN ""
  ELSE IF Len(list) = 1 THEN list[1]
  ELSE list[1] \o sep \o Join(Tail(list), sep)

\* ------------------------------------------------------------------------
\*  VERSION ENGINE
\* ------------------------------------------------------------------------

RECURSIVE DigitRunLen(_, _)
\* length of the run of digits of s starting at position k
DigitRunLen(s, k) ==
  IF k <= Len(s) /\ IsDigit(Ch(s, k)) THEN 1 + DigitRunLen(s, k + 1) ELSE 0

RECURSIVE ParseInt(_, _, _, _)
\* parseInt of the first n characters of s, all digits; acc the value of the first k - 1
ParseInt(s, n, k, acc) ==
  IF k > n THEN acc ELSE ParseInt(s, n, k + 1, 10 * acc + DigitVal(Ch(s, k)))

parseSegment(seg0) ==
  LET seg == ToLowerCase(Trim(IF Falsy(seg0) THEN "" ELSE seg0))
      n   == DigitRunLen(seg, 1)
  IN  [num   |-> IF n > 0 THEN ParseInt(seg, n, 1, 0) ELSE 0,
       alpha |-> SubSeq(seg, n + 1, Len(seg))]

\* the remainders compared from the side of the first operand only
compareSegmentsOneSided(sa, sb) ==
  IF sa.num # sb.num THEN (IF sa.num < sb.num THEN -1 ELSE 1)
  ELSE IF sa.alpha = sb.alpha THEN 0
  ELSE IF sa.alpha = "" THEN -1
  ELSE 1

compareSegments(sa, sb) ==
  IF sa.num # sb.num THEN (IF sa.num < sb.num THEN -1 ELSE 1)
  ELSE IF sa.alpha = sb.alpha THEN 0
  ELSE IF sa.alpha = "" THEN -1
  ELSE IF sb.alpha = "" THEN 1
  ELSE IF StrLess(sa.alpha, sb.alpha) THEN -1 ELSE 1

parseVersion(vstr) ==
  IF Falsy(vstr) THEN <<[num |-> 0, alpha |-> ""]>>
  ELSE LET parts == Split(Trim(vstr), ".")
       IN  [k \in 1..Len(parts) |-> parseSegment(parts[k])]

PadSegment == [num |-> 0, alpha |-> ""]

RECURSIVE CompareFromUnpadded(_, _, _)
\* the loop without the pad: the operand that runs out first is the smaller
CompareFromUnpadded(sa, sb, k) ==
  IF k > Len(sa) /\ k > Len(sb) THEN 0
  ELSE IF k > Len(sa) THEN -1
  ELSE IF k > Len(sb) THEN 1
  ELSE LET c == compareSegments(sa[k], sb[k])
       IN  IF c # 0 THEN c ELSE CompareFromUnpadded(sa, sb, k + 1)

RECURSIVE CompareFrom(_, _, _)
\* the loop of compareVersions from index k on
CompareFrom(sa, sb, k) ==
  IF k > Len(sa) /\ k > Len(sb) THEN 0
  ELSE LET c == compareSegments(IF k <= Len(sa) THEN sa[k] ELSE PadSegment,
                                IF k <= Len(sb) THEN sb[k] ELSE PadSegment)
       IN  IF c # 0 THEN c ELSE CompareFrom(sa, sb, k + 1)

compareVersions(a, b) == CompareFrom(parseVersion(a), parseVersion(b), 1)

\* the two comparisons without the guard on empty arguments
isVersionInRangeUnguarded(target, minVer, maxVer) ==
  compareVersions(target, minVer) >= 0 /\ compareVersions(target, maxVer) <= 0

isVersionInRange(target, minVer, maxVer) ==
  IF Falsy(target) \/ Falsy(minVer) \/ Falsy(maxVer) THEN FALSE
  ELSE compareVersions(target, minVer) >= 0 /\ compareVersions(target, maxVer) <= 0

RECURSIVE AlnumRunLen(_, _)
AlnumRunLen(s, k) ==
  IF k <= Len(s) /\ IsAlnum(Ch(s, k)) THEN 1 + AlnumRunLen(s, k + 1) ELSE 0

RECURSIVE DottedGroupsEnd(_, _)
\* end (last position) of the longest run of (\.[0-9a-zA-Z]+) groups after position k
DottedGroupsEnd(s, k) ==
  IF k + 1 <= Len(s) /\ Ch(s, k + 1) = "." /\ AlnumRunLen(s, k + 2) > 0
  THEN DottedGroupsEnd(s, k + 1 + AlnumRunLen(s, k + 2))
  ELSE k

\* last position of a VERSION_TOKEN_RE match starting at k, 0 if none starts there
TokenEndAt(s, k) ==
  LET n == AlnumRunLen(s, k)
      e == DottedGroupsEnd(s, k + n - 1)
  IN  IF n > 0 /\ e > k + n - 1 THEN e ELSE 0

RECURSIVE MatchTokens(_, _)
\* String(text).match(VERSION_TOKEN_RE) scanning from position k
MatchTokens(s, k) ==
  IF k > Len(s) THEN <<>>
  ELSE LET e == TokenEndAt(s, k)
       IN  IF e > 0 THEN <<SubSeq(s, k, e)>> \o MatchTokens(s, e + 1)
           ELSE MatchTokens(s, k + 1)

extractVersionTokens(text) ==
  IF Falsy(text) THEN <<>>
  ELSE SelectSeq(MatchTokens(text, 1), LAMBDA t : Includes(t, "."))

\* first and last token taken as they stand, without the swap
parseCompatibilityStringUnswapped(text) ==
  LET rawText == Trim(IF Falsy(text) THEN "" ELSE text)
      tokens  == extractVersionTokens(rawText)
  IN  IF rawText = "" \/ tokens = <<>>
        THEN [minVersion |-> Null, maxVersion |-> Null, rawText |-> rawText]
      ELSE [minVersion |-> tokens[1], maxVersion |-> tokens[Len(tokens)],
            rawText |-> rawText]

parseCompatibilityString(text) ==
  LET rawText == Trim(IF Falsy(text) THEN "" ELSE text)
      tokens  == extractVersionTokens(rawText)
      first   == tokens[1]
      last    == tokens[Len(tokens)]
  IN  IF rawText = "" \/ tokens = <<>>
        THEN [minVersion |-> Null, maxVersion |-> Null, rawText |-> rawText]
      ELSE IF Len(tokens) = 1
        THEN [minVersion |-> first, maxVersion |-> first, rawText |-> rawText]
      ELSE IF compareVersions(first, last) > 0
        THEN [minVersion |-> last, maxVersion |-> first, rawText |-> rawText]
      ELSE [minVersion |-> first, maxVersion |-> last, rawText |-> rawText]

\* ------------------------------------------------------------------------
\*  URL HELPERS
\* ------------------------------------------------------------------------

\* position of the first of "/", "?", "#" in s at or after k, Len(s)+1 if none
RECURSIVE AuthorityEnd(_, _)
AuthorityEnd(s, k) ==
  IF k > Len(s) THEN k
  ELSE IF Ch(s, k) \in {"/", "?", "#"} THEN k
  ELSE AuthorityEnd(s, k + 1)

RECURSIVE PathEnd(_, _)
PathEnd(s, k) ==
  IF k > Len(s) THEN k
  ELSE IF Ch(s, k) \in {"?", "#"} THEN k
  ELSE PathEnd(s, k + 1)

SchemeLen(u) ==
  IF StartsWith(u, "https://") THEN 8
  ELSE IF StartsWith(u, "http://") THEN 7
  ELSE 0

\* new URL(u) throws unless u is an absolute http(s) URL with a host
UrlValid(u) ==
  /\ ~Falsy(u)
  /\ SchemeLen(u) > 0
  /\ AuthorityEnd(u, SchemeLen(u) + 1) > SchemeLen(u) + 1

\* new URL(u).pathname of a valid URL
UrlPathname(u) ==
  LET a == AuthorityEnd(u, SchemeLen(u) + 1)
      e == PathEnd(u, a)
  IN  IF a >= e THEN "/" ELSE SubSeq(u, a, e - 1)

\* /^\d+$/.test(s)
AllDigits(s) == s # "" /\ DigitRunLen(s, 1) = Len(s)

RECURSIVE SeqIndexOf(_, _, _)
\* parts.indexOf(x) as a 1-based index, 0 if absent
SeqIndexOf(parts, x, k) ==
  IF k > Len(parts) THEN 0
  ELSE IF parts[k] = x THEN k
  ELSE SeqIndexOf(parts, x, k + 1)

NoIdentifiers == [id |-> Null, slug |-> Null]

\* the segment after the id reported as slug whatever it is
extractAddonIdentifiersAnySlug(marketplaceUrl) ==
  IF ~UrlValid(marketplaceUrl) THEN NoIdentifiers
  ELSE
    LET parts   == SelectSeq(Split(UrlPathname(marketplaceUrl), "/"), LAMBDA p : p # "")
        appsIdx == SeqIndexOf(parts, "apps", 1)
        id      == IF appsIdx + 1 <= Len(parts) THEN parts[appsIdx + 1] ELSE Null
        slug    == IF appsIdx + 2 <= Len(parts) THEN parts[appsIdx + 2] ELSE Null
    IN  IF appsIdx > 0 /\ ~Falsy(id) /\ AllDigits(id)
          THEN [id |-> id, slug |-> slug]
        ELSE NoIdentifiers

extractAddonIdentifiers(marketplaceUrl) ==
  IF ~UrlValid(marketplaceUrl) THEN NoIdentifiers
  ELSE
    LET parts   == SelectSeq(Split(UrlPathname(marketplaceUrl), "/"), LAMBDA p : p # "")
        appsIdx == SeqIndexOf(parts, "apps", 1)
        id      == IF appsIdx + 1 <= Len(parts) THEN parts[appsIdx + 1] ELSE Null
        slug    == IF appsIdx + 2 <= Len(parts) THEN parts[appsIdx + 2] ELSE Null
    IN  IF appsIdx > 0 /\ ~Falsy(id) /\ AllDigits(id)
          THEN [id   |-> id,
                slug |-> IF ~Falsy(slug) /\ slug \notin {"version-history", "overview"}
                           THEN slug ELSE Null]
        ELSE NoIdentifiers

RECURSIVE StripQuery(_)
\* rawUrl.split('?')[0]
StripQuery(u) == Split(u, "?")[1]

normalizeVersionHistoryUrl(rawUrl0) ==
  LET rawUrl == Trim(IF Falsy(rawUrl0) THEN "" ELSE rawUrl0)
      base   == IF Includes(rawUrl, "/version-history")
                  THEN StripQuery(rawUrl)
                ELSE (IF rawUrl # "" /\ Ch(rawUrl, Len(rawUrl)) = "/"
                        THEN SubSeq(rawUrl, 1, Len(rawUrl) - 1)
                        ELSE rawUrl) \o "/version-history"
  IN  base \o "?versionHistoryHosting=dataCenter"

\* ------------------------------------------------------------------------
\*  UPSTREAM RECORDS: state nodes (initial-state JSON and REST items)
\* ------------------------------------------------------------------------

\* /^\d+\.\d+/.test(s)
LooksLikeVersion(s) ==
  LET n == DigitRunLen(s, 1)
  IN  n > 0 /\ n + 2 <= Len(s) /\ Ch(s, n + 1) = "." /\ IsDigit(Ch(s, n + 2))

IsDcHosting(c) ==
  LET h == ToLowerCase(IF ~Falsy(c.hosting) THEN c.hosting
                       ELSE IF ~Falsy(c.type) THEN c.type ELSE "")
  IN  Includes(h, "datacenter") \/ Includes(h, "data_center") \/ h = "server_and_dc"

\* A state node is [name, version, compatibilities, releaseDate, releaseSummary];
\* compatibilities is the candidate list the code gathers from
\* _embedded.compatibilities, compatibility and compatibilities, each candidate
\* [hosting, type, min, max].  The result is <<>> for null, <<entry>> otherwise.
extractVersionFromStateNode(node, versionStr) ==
  LET dcs == SelectSeq(node.compatibilities, IsDcHosting)
      dc  == dcs[1]
      min == IF Falsy(dc.min) THEN "" ELSE dc.min
      max == IF Falsy(dc.max) THEN "" ELSE dc.max
  IN  IF dcs = <<>> THEN <<>>
      ELSE IF min = "" \/ max = "" THEN <<>>
      ELSE <<[version        |-> versionStr,
              compatibility  |-> min \o " - " \o max,
              releaseDate    |-> IF Falsy(node.releaseDate) THEN "" ELSE node.releaseDate,
              releaseSummary |-> IF Falsy(node.releaseSummary) THEN "" ELSE node.releaseSummary,
              minVersion     |-> min,
              maxVersion     |-> max]>>

\* node.name || node.version || ''
NodeVersionStr(node) ==
  IF ~Falsy(node.name) THEN node.name
  ELSE IF ~Falsy(node.version) THEN node.version ELSE ""

RECURSIVE walkInitialState(_)
\* the entries collected from a list of state nodes, in document order
walkInitialState(nodes) ==
  IF nodes = <<>> THEN <<>>
  ELSE LET node == Head(nodes)
           vs   == NodeVersionStr(node)
       IN  (IF vs # "" /\ LooksLikeVersion(vs) /\ Len(vs) < 25
              THEN extractVersionFromStateNode(node, vs) ELSE <<>>)
           \o walkInitialState(Tail(nodes))

RECURSIVE ApiEntries(_)
\* the loop of fetchFromAPI over the items of one page
ApiEntries(items) ==
  IF items = <<>> THEN <<>>
  ELSE extractVersionFromStateNode(Head(items), NodeVersionStr(Head(items)))
       \o ApiEntries(Tail(items))

\* versions.map(...) at the end of fetchFromPuppeteer
MapDomRows(domRows) ==
  [k \in 1..Len(domRows) |->
     LET parsed == parseCompatibilityString(domRows[k].compatibility)
     IN  [version        |-> domRows[k].version,
          compatibility  |-> domRows[k].compatibility,
          releaseDate    |-> domRows[k].releaseDate,
          releaseSummary |-> Null,
          minVersion     |-> parsed.minVersion,
          maxVersion     |-> parsed.maxVersion]]

\* ------------------------------------------------------------------------
\*  RESULT BUILDER
\* ------------------------------------------------------------------------

JsTrue  == "true"
JsFalse == "false"

\* min/max of a raw record after the fallback parse
ResolvedBounds(v) ==
  IF Falsy(v.minVersion) \/ Falsy(v.maxVersion)
    THEN LET parsed == parseCompatibilityString(v.compatibility)
         IN  [min |-> parsed.minVersion, max |-> parsed.maxVersion]
  ELSE [min |-> v.minVersion, max |-> v.maxVersion]

RangeText(min, max) == min \o " - " \o max

\* a record kept as soon as its bounds resolve, whatever the target
KeepResolvedRecord(v, target, b) ==
  IF Falsy(b.min) \/ Falsy(b.max) THEN <<>>
  ELSE <<[pluginVersion      |-> v.version,
          compatibilityRange |-> RangeText(b.min, b.max),
          compatibility      |-> IF Falsy(v.compatibility) THEN RangeText(b.min, b.max)
                                 ELSE v.compatibility,
          releaseDate        |-> IF Falsy(v.releaseDate) THEN "" ELSE v.releaseDate,
          releaseSummary     |-> IF Falsy(v.releaseSummary) THEN ""
                                 ELSE v.releaseSummary]>>

\* one iteration of the first loop of buildResult, b the resolved bounds of v:
\* <<>> when v is skipped, <<entry>> when it is pushed
KeepRecord(v, target, b) ==
  IF Falsy(b.min) \/ Falsy(b.max) THEN <<>>
  ELSE IF isVersionInRange(target, b.min, b.max)
    THEN <<[pluginVersion      |-> v.version,
            compatibilityRange |-> RangeText(b.min, b.max),
            compatibility      |-> IF Falsy(v.compatibility) THEN RangeText(b.min, b.max)
                                   ELSE v.compatibility,
            releaseDate        |-> IF Falsy(v.releaseDate) THEN "" ELSE v.releaseDate,
            releaseSummary     |-> IF Falsy(v.releaseSummary) THEN ""
                                   ELSE v.releaseSummary]>>
  ELSE <<>>

RECURSIVE KeptEntries(_, _)
\* the first loop of buildResult
KeptEntries(rawVersions, target) ==
  IF rawVersions = <<>> THEN <<>>
  ELSE KeepRecord(Head(rawVersions), target, ResolvedBounds(Head(rawVersions)))
       \o KeptEntries(Tail(rawVersions), target)

\* the comparator passed to sort: descending at 453, ascending at 460
SortCmp(a, b, desc) ==
  IF desc THEN compareVersions(b.pluginVersion, a.pluginVersion)
  ELSE compareVersions(a.pluginVersion, b.pluginVersion)

RECURSIVE InsertSorted(_, _, _)
\* x inserted after every element that does not compare greater (stable)
InsertSorted(sorted, x, desc) ==
  IF sorted = <<>> THEN <<x>>
  ELSE IF SortCmp(Head(sorted), x, desc) > 0 THEN <<x>> \o sorted
  ELSE <<Head(sorted)>> \o InsertSorted(Tail(sorted), x, desc)

RECURSIVE SortFrom(_, _, _)
SortFrom(done, rest, desc) ==
  IF rest = <<>> THEN done
  ELSE SortFrom(InsertSorted(done, Head(rest), desc), Tail(rest), desc)

\* Array.prototype.sort with the comparator (a stable sort)
SortEntries(list, desc) == SortFrom(<<>>, list, desc)

\* the current version looked up by its text instead of by the comparator
IsCurrentVersionListed(kept, currentVersion) ==
  \E k \in 1..Len(kept) : kept[k].pluginVersion = currentVersion

\* compatibleVersions.some(cv => compareVersions(cv.pluginVersion, currentVersion) === 0)
IsCurrentVersionCompatible(kept, currentVersion) ==
  \E k \in 1..Len(kept) : compareVersions(kept[k].pluginVersion, currentVersion) = 0

\* the last element of the sorted list taken instead of its head
RecommendedVersionLast(sortedDesc) ==
  IF sortedDesc = <<>> THEN Null ELSE sortedDesc[Len(sortedDesc)].pluginVersion

\* recommendedVersion, from the list sorted descending in place
RecommendedVersion(sortedDesc) ==
  IF sortedDesc = <<>> THEN Null ELSE sortedDesc[1].pluginVersion

\* compatibleVersionRange, from the ascending copy
VersionRange(sortedAsc) ==
  IF sortedAsc = <<>> THEN Null
  ELSE IF sortedAsc[1].pluginVersion = sortedAsc[Len(sortedAsc)].pluginVersion
    THEN sortedAsc[1].pluginVersion
  ELSE RangeText(sortedAsc[1].pluginVersion, sortedAsc[Len(sortedAsc)].pluginVersion)

\* the object buildResult returns; kept is the list in acquisition order (which
\* `some` runs over), sortedDesc the same array after the in-place sort
ResultRecord(plugin, rawVersions, target, fetchMethod, kept, sortedDesc) ==
  [pluginName             |-> plugin.name,
   pluginUrl              |-> plugin.marketplaceUrl,
   currentVersion         |-> plugin.currentVersion,
   targetDCVersion        |-> target,
   fetchMethod            |-> fetchMethod,
   compatible             |-> IF IsCurrentVersionCompatible(kept, plugin.currentVersion)
                                THEN JsTrue ELSE JsFalse,
   compatibleVersions     |-> sortedDesc,
   compatibleVersionRange |-> VersionRange(SortEntries(sortedDesc, FALSE)),
   recommendedVersion     |-> RecommendedVersion(sortedDesc),
   totalVersionsChecked   |-> Len(rawVersions),
   allVersions            |-> rawVersions,
   parseWarnings          |-> <<>>,
   error                  |-> Null]

\* the result with compatibleVersions left in acquisition order
SortedResultUnsorted(plugin, rawVersions, target, fetchMethod, kept) ==
  ResultRecord(plugin, rawVersions, target, fetchMethod, kept, kept)

SortedResult(plugin, rawVersions, target, fetchMethod, kept) ==
  ResultRecord(plugin, rawVersions, target, fetchMethod, kept, SortEntries(kept, TRUE))

buildResult(plugin, rawVersions, target, fetchMethod) ==
  SortedResult(plugin, rawVersions, target, fetchMethod, KeptEntries(rawVersions, target))

\* the catch block reporting the failed plugin like an incompatible one
failedResultAsIncompatible(plugin, target, message) ==
  [pluginName             |-> plugin.name,
   pluginUrl              |-> plugin.marketplaceUrl,
   currentVersion         |-> plugin.currentVersion,
   targetDCVersion        |-> target,
   fetchMethod            |-> "failed",
   compatible             |-> JsFalse,
   compatibleVersions     |-> <<>>,
   compatibleVersionRange |-> Null,
   recommendedVersion     |-> Null,
   error                  |-> message]

\* the result checkCompatibility builds in its catch block
failedResult(plugin, target, message) ==
  [pluginName             |-> plugin.name,
   pluginUrl              |-> plugin.marketplaceUrl,
   currentVersion         |-> plugin.currentVersion,
   targetDCVersion        |-> target,
   fetchMethod            |-> "failed",
   compatible             |-> Null,
   compatibleVersions     |-> <<>>,
   compatibleVersionRange |-> Null,
   recommendedVersion     |-> Null,
   error                  |-> message]

\* ------------------------------------------------------------------------
\*  BOUNDS AND INPUTS
\* ------------------------------------------------------------------------

\* longest plugin list the database returns
MaxPlugins == 2
\* most full pages the REST upstream serves before a short or empty one
MaxFullPages == 1
\* const LIMIT = 50 in fetchFromAPI
LIMIT == 50
\* while (loadClicks < 25) in fetchFromPuppeteer
MaxLoadClicks == 25
\* most load-more expansions the rendered page offers
MaxLoadMore == 2

PluginPool ==
  <<[name |-> "ScriptRunner",
     marketplaceUrl |-> "https://marketplace.atlassian.com/apps/1215215/scriptrunner",
     currentVersion |-> "2.0"],
    [name |-> "Legacy",
     marketplaceUrl |-> "https://marketplace.atlassian.com/plugins/legacy/",
     currentVersion |-> "1.0"]>>

\* the n plugins of the pool starting at s, cyclically
PluginList(s, n) ==
  [k \in 1..n |-> PluginPool[((s + k - 2) % Len(PluginPool)) + 1]]

\* what Plugin.find can return
PluginLists == {PluginList(s, n) : s \in 1..Len(PluginPool), n \in 0..MaxPlugins}

\* req.query of GET /api/check-compatibility
Requests ==
  [type : {Null, "confluence"}, targetDCVersion : {Null, "8.5"}]

Compat(h, mn, mx) == [hosting |-> h, type |-> Null, min |-> mn, max |-> mx]

StateNode(v, compats) ==
  [name |-> v, version |-> Null, compatibilities |-> compats,
   releaseDate |-> "2024-01-15", releaseSummary |-> Null]

NodeOld   == StateNode("1.0", <<Compat("cloud", "1", "2"), Compat("dataCenter", "7.0", "8.0")>>)
NodeMid   == StateNode("2.0", <<Compat("datacenter", "8.0", "9.0")>>)
NodeNew   == StateNode("3.0", <<Compat("server_and_dc", "8.0", "9.1")>>)
NodeCloud == StateNode("4.0", <<Compat("cloud", "1", "2")>>)

\* what httpGet can reject with
HttpFailures == {"HTTP 404"}

\* a fetched HTML page: is the initial-state script tag there, does its content
\* parse ("plain"), parse after entity decoding ("encoded") or not at all ("bad"),
\* and the nodes of the parsed state
PageNoMarker   == [marker |-> FALSE, json |-> "plain",   nodes |-> <<>>]
PageBadJson    == [marker |-> TRUE,  json |-> "bad",     nodes |-> <<>>]
PageNoVersions == [marker |-> TRUE,  json |-> "plain",   nodes |-> <<NodeCloud>>]
PageEncoded    == [marker |-> TRUE,  json |-> "encoded", nodes |-> <<NodeOld, NodeMid, NodeNew>>]
PagePlain      == [marker |-> TRUE,  json |-> "plain",   nodes |-> <<NodeOld, NodeMid, NodeNew>>]

\* longest batch for which every kind of upstream answer is explored
MaxFullBatch == 1

\* The pages the upstream may answer with.  Every kind is explored for a batch
\* of up to MaxFullBatch plugins; a longer batch explores one failing and one
\* succeeding kind per tier, which keeps the product over the plugins of a
\* batch small enough to enumerate.
HtmlPages(batchSize) ==
  IF batchSize > MaxFullBatch THEN {PageNoMarker, PagePlain}
  ELSE {PageNoMarker, PageBadJson, PageNoVersions, PageEncoded, PagePlain}

\* a REST page body: malformed, or count items of which `nodes` are listed (the
\* remaining count - Len(nodes) items carry no data-center compatibility)
BodyMalformed == [json |-> FALSE, count |-> 0,     nodes |-> <<>>]
BodyEmpty     == [json |-> TRUE,  count |-> 0,     nodes |-> <<>>]
BodyCloud     == [json |-> TRUE,  count |-> 3,     nodes |-> <<NodeCloud>>]
BodyShort     == [json |-> TRUE,  count |-> 2,     nodes |-> <<NodeMid, NodeOld>>]
BodyFull      == [json |-> TRUE,  count |-> LIMIT, nodes |-> <<NodeNew>>]

ApiBodies(batchSize) ==
  IF batchSize > MaxFullBatch THEN {BodyEmpty, BodyShort, BodyFull}
  ELSE {BodyMalformed, BodyEmpty, BodyCloud, BodyShort, BodyFull}

\* what a browser-automation call can reject with
BrowserFailures == {"Protocol error: Target closed"}

\* the rows the extraction script of fetchFromPuppeteer returns
DomRowSets ==
  {<<>>,
   <<[version |-> "2.0", compatibility |-> "Confluence Data Center 8.0 - 9.0",
      releaseDate |-> "2024-01-15"],
     [version |-> "1.0", compatibility |-> "Confluence Data Center 7.0 - 8.0",
      releaseDate |-> "2023-05-02"]>>}

\* most raw records in one call of buildResult on its own
MaxRaw == 3

\* a raw version record as the tiers build it
RawRecord(v, text, mn, mx) ==
  [version |-> v, compatibility |-> text, releaseDate |-> "2024-01-15",
   releaseSummary |-> "", minVersion |-> mn, maxVersion |-> mx]

RawOld       == RawRecord("1.0", "7.0 - 8.0", "7.0", "8.0")
RawMid       == RawRecord("2.0", "8.0 - 9.0", "8.0", "9.0")
RawNew       == RawRecord("3.0", "8.0 - 9.1", "8.0", "9.1")
\* the same release as RawMid under the comparator, written with a patch level
RawMidPatch  == RawRecord("2.0.0", "8.0 - 9.0", "8.0", "9.0")
\* no bounds on the record, two version tokens in its text
RawText      == RawRecord("1.0", "Confluence Data Center 8.0 - 9.0", Null, Null)
\* one bound on the record, two version tokens in its text
RawHalf      == RawRecord("3.1", "Data Center 9.0 - 9.5", "8.0", Null)
\* no bounds on the record, no version token in its text
RawNoBounds  == RawRecord("5.0", "Confluence Cloud", Null, Null)

RawPool == {RawOld, RawMid, RawNew, RawMidPatch, RawText, RawHalf, RawNoBounds}

RawVersionLists == UNION {[1..n -> RawPool] : n \in 0..MaxRaw}

\* the target versions buildResult is called with
Targets == {Null, "8.5", "9.1"}

\* the version strings compareVersions is called with
VersionStrings ==
  {Null, "", "2", "2.0", "2.0.0", "2.1", "8", "08", " 8 ", "8a", "8B", "8b",
   "8.1", "8.10", "1.0-beta", "a"}

\* the arguments isVersionInRange is called with
RangeStrings == {Null, "", "8.0", "8.5", "9.0", "9.1"}

\* the texts parseCompatibilityString is called with
CompatTexts ==
  {Null, "", "   ", "Confluence Cloud", "Data Center 9", "8.0",
   "Confluence Data Center 8.0 - 9.0", "9.0 - 8.0", "7.0 & 8.0 - 9.1",
   "8.10 - 8.9", "v2.x to 9.0.1", "8.0-8.0"}

\* the URLs extractAddonIdentifiers and normalizeVersionHistoryUrl are called with
UrlStrings ==
  {Null, "", "not a url", "marketplace.atlassian.com/apps/1215215/scriptrunner",
   "https://marketplace.atlassian.com/apps/1215215/scriptrunner",
   "https://marketplace.atlassian.com/apps/1215215/scriptrunner/",
   "https://marketplace.atlassian.com/apps/1215215/scriptrunner?hosting=cloud",
   "https://marketplace.atlassian.com/apps/1215215/scriptrunner/version-history",
   "https://marketplace.atlassian.com/apps/1215215/scriptrunner/version-history?versionHistoryHosting=cloud",
   "https://marketplace.atlassian.com/apps/1215215/version-history",
   "https://marketplace.atlassian.com/apps/1215215/overview",
   "https://marketplace.atlassian.com/apps/1215215",
   "https://marketplace.atlassian.com/apps/scriptrunner/1215215",
   "https://marketplace.atlassian.com/apps",
   "https://marketplace.atlassian.com/plugins/legacy/"}

\* the URLs the upstream of httpGet serves
HttpUrls ==
  {"https://marketplace.atlassian.com/apps/1215215/scriptrunner/version-history",
   "https://marketplace.atlassian.com/apps/1215215/scriptrunner",
   "https://id.atlassian.com/login"}

\* one answer of the upstream: status 0 stands for no answer within the timeout
HttpAnswer(status, location) == [status |-> status, location |-> location]

HttpAnswers ==
  {HttpAnswer(200, Null), HttpAnswer(404, Null), HttpAnswer(0, Null),
   HttpAnswer(302, Null), HttpAnswer(302, "/login")}
  \cup {HttpAnswer(301, u) : u \in HttpUrls}

\* the upstreams: one answer per URL, none redirecting a URL to itself
HttpUpstreams ==
  {up \in [HttpUrls -> HttpAnswers] : \A u \in HttpUrls : up[u].location # u}

NoCall == [fn |-> Null, args |-> <<>>]

\* httpGet(reqUrl) against an upstream
HttpGetCalls ==
  {[fn |-> "httpGet", args |-> <<u, up>>] : u \in HttpUrls, up \in HttpUpstreams}

ParseCompatibilityStringCalls ==
  {[fn |-> "parseCompatibilityString", args |-> <<text>>] : text \in CompatTexts}

ExtractAddonIdentifiersCalls ==
  {[fn |-> "extractAddonIdentifiers", args |-> <<u>>] : u \in UrlStrings}

NormalizeVersionHistoryUrlCalls ==
  {[fn |-> "normalizeVersionHistoryUrl", args |-> <<u>>] : u \in UrlStrings}

BuildResultCalls ==
  {[fn |-> "buildResult", args |-> <<PluginPool[p], raw, t, "initial-state">>] :
     p \in 1..Len(PluginPool), raw \in RawVersionLists, t \in Targets}

CompareVersionsCalls ==
  {[fn |-> "compareVersions", args |-> <<a, b, c>>] :
     a \in VersionStrings, b \in VersionStrings, c \in VersionStrings}

IsVersionInRangeCalls ==
  {[fn |-> "isVersionInRange", args |-> <<t, mn, mx>>] :
     t \in RangeStrings, mn \in RangeStrings, mx \in RangeStrings}

\* ------------------------------------------------------------------------
\*  STATE
\* ------------------------------------------------------------------------

VARIABLES
  req,          \* query parameters of the request
  db,           \* the documents Plugin.find returns for it
  pc,           \* position of the (single) asynchronous control flow
  httpStatus,   \* 0 until the response head is written, then 400 or 200
  sse,          \* events written to the response, in order
  ended,        \* number of res.end() calls
  plugins,      \* checkCompatibility: its plugin list argument
  browser,      \* "none", "open" or "closed"
  launchCalls,  \* number of puppeteer.launch calls
  closeCalls,   \* number of browser.close calls
  i,            \* loop index of checkCompatibility
  results,      \* result list of checkCompatibility
  result,       \* the result of the current plugin
  thrown,       \* message of the error being propagated, Null if none
  identifiers,  \* fetchAllVersions: extractAddonIdentifiers(plugin.marketplaceUrl)
  pageUrl,      \* fetchAllVersions: normalized version-history URL
  errors,       \* fetchAllVersions: tagged tier failures
  versions,     \* versions returned by the tier that succeeded
  method,       \* name of that tier
  allVersions,  \* fetchFromAPI: records gathered so far
  offset,       \* fetchFromAPI: offset of the next page
  page,         \* fetchFromPuppeteer: "none", "open" or "closed"
  loadClicks,   \* fetchFromPuppeteer: load-more clicks so far
  rows,         \* fetchFromPuppeteer: rows returned by the extraction
  openPages,    \* pages open in the browser session
  inflight,     \* awaited operations not yet settled: [plugin, tier, op]
  tierLog,      \* tier entries and exits so far: [plugin, tier, ev]
  httpIssued,   \* whether an HTTP request to the marketplace was issued
  sessionsUsed, \* [plugin, session, state] of each fetchFromPuppeteer call
  apiLog,       \* fetchFromAPI: its page requests, their answers and the delays, in order
  call,         \* a call of one function of scraper.js on its own: [fn, args]
  ret           \* <<>> until that call has returned, then <<value>>

vars == <<req, db, pc, httpStatus, sse, ended, plugins, browser, launchCalls,
          closeCalls, i, results, result, thrown, identifiers, pageUrl, errors,
          versions, method, allVersions, offset, page, loadClicks, rows,
          openPages, inflight, tierLog, httpIssued, sessionsUsed, apiLog, call, ret>>

routeVars   == <<req, db, httpStatus, ended>>
sessionVars == <<browser, launchCalls, closeCalls>>
batchVars   == <<plugins, i, results, result>>
favVars     == <<identifiers, pageUrl, errors, versions, method>>
apiVars     == <<allVersions, offset, apiLog>>
pupVars     == <<page, loadClicks, rows, openPages, sessionsUsed>>
fnVars      == <<call, ret>>

Init ==
  /\ req \in Requests
  /\ db \in PluginLists
  /\ pc = "idle"
  /\ httpStatus = 0
  /\ sse = <<>>
  /\ ended = 0
  /\ plugins = <<>>
  /\ browser = "none"
  /\ launchCalls = 0
  /\ closeCalls = 0
  /\ i = 0
  /\ results = <<>>
  /\ result = Null
  /\ thrown = Null
  /\ identifiers = NoIdentifiers
  /\ pageUrl = Null
  /\ errors = <<>>
  /\ versions = <<>>
  /\ method = Null
  /\ allVersions = <<>>
  /\ offset = 0
  /\ page = "none"
  /\ loadClicks = 0
  /\ rows = <<>>
  /\ openPages = 0
  /\ inflight = {}
  /\ tierLog = <<>>
  /\ httpIssued = FALSE
  /\ sessionsUsed = {}
  /\ apiLog = <<>>
  /\ call = NoCall
  /\ ret = <<>>

\* plugin read at a fixed index instead of the loop index
pluginAtFirstIndex == plugins[1]

\* the plugin the loop of checkCompatibility is at
plugin == plugins[i + 1]

\* sendEvent(data): one SSE event
Event(type, message, payload) == [type |-> type, message |-> message, results |-> payload]

\* progressCallback(message) as the route defines it
Progress(message) == Event("progress", message, <<>>)

\* the operation the control flow is suspended on
Pending(tier, op) == {[plugin |-> i + 1, tier |-> tier, op |-> op]}

\* a tier of fetchAllVersions is entered ("start"), returns ("ok") or throws ("fail")
TierEvent(tier, ev) == [plugin |-> i + 1, tier |-> tier, ev |-> ev]

\* ------------------------------------------------------------------------
\*  GET /api/check-compatibility
\* ------------------------------------------------------------------------

\* the route without its parameter validation
RequestUnvalidated ==
  /\ pc = "idle"
  /\ httpStatus' = 200
  /\ pc' = "find"
  /\ inflight' = {[plugin |-> 0, tier |-> "route", op |-> "Plugin.find"]}
  /\ UNCHANGED <<fnVars, req, db, sse, ended, sessionVars, batchVars, thrown, favVars,
                 apiVars, pupVars, tierLog, httpIssued>>

\* parameter validation, SSE head, Plugin.find is awaited
Request ==
  /\ pc = "idle"
  /\ IF Falsy(req.type) \/ Falsy(req.targetDCVersion)
       THEN /\ httpStatus' = 400
            /\ pc' = "rejected"
            /\ UNCHANGED inflight
       ELSE /\ httpStatus' = 200
            /\ pc' = "find"
            /\ inflight' = {[plugin |-> 0, tier |-> "route", op |-> "Plugin.find"]}
  /\ UNCHANGED <<fnVars, req, db, sse, ended, sessionVars, batchVars, thrown, favVars,
                 apiVars, pupVars, tierLog, httpIssued>>

\* the empty-list branch without its return: control reaches the final res.end()
FindPluginsNoReturn ==
  /\ pc = "find"
  /\ inflight' = {}
  /\ \/ /\ thrown' = "MongoNetworkError"
        /\ pc' = "route_catch"
        /\ UNCHANGED <<sse, ended, plugins>>
     \/ /\ Len(db) = 0
        /\ sse' = Append(sse, Event("error", "No plugins found for this product type.", <<>>))
        /\ ended' = ended + 1
        /\ pc' = "route_end"
        /\ UNCHANGED <<thrown, plugins>>
     \/ /\ Len(db) > 0
        /\ sse' = Append(sse, Event("start",
                   "Starting compatibility check for " \o ToString(Len(db)) \o " plugins...",
                   <<>>))
        /\ plugins' = db
        /\ pc' = "cc_entry"
        /\ UNCHANGED <<thrown, ended>>
  /\ UNCHANGED <<fnVars, req, db, httpStatus, sessionVars, i, results, result, favVars,
                 apiVars, pupVars, tierLog, httpIssued>>

\* Plugin.find settles; the empty list ends the stream, otherwise the batch starts
FindPlugins ==
  /\ pc = "find"
  /\ inflight' = {}
  /\ \/ /\ thrown' = "MongoNetworkError"
        /\ pc' = "route_catch"
        /\ UNCHANGED <<sse, ended, plugins>>
     \/ /\ Len(db) = 0
        /\ sse' = Append(sse, Event("error", "No plugins found for this product type.", <<>>))
        /\ ended' = ended + 1
        /\ pc' = "ended"
        /\ UNCHANGED <<thrown, plugins>>
     \/ /\ Len(db) > 0
        /\ sse' = Append(sse, Event("start",
                   "Starting compatibility check for " \o ToString(Len(db)) \o " plugins...",
                   <<>>))
        /\ plugins' = db
        /\ pc' = "cc_entry"
        /\ UNCHANGED <<thrown, ended>>
  /\ UNCHANGED <<fnVars, req, db, httpStatus, sessionVars, i, results, result, favVars,
                 apiVars, pupVars, tierLog, httpIssued>>

\* sendEvent({type:'complete', results})
RouteComplete ==
  /\ pc = "route_complete"
  /\ sse' = Append(sse, Event("complete", "", results))
  /\ pc' = "route_end"
  /\ UNCHANGED <<fnVars, routeVars, sessionVars, batchVars, thrown, favVars, apiVars,
                 pupVars, inflight, tierLog, httpIssued>>

\* catch (err) { sendEvent({type:'error', message: err.message}) }
RouteCatch ==
  /\ pc = "route_catch"
  /\ sse' = Append(sse, Event("error", thrown, <<>>))
  /\ thrown' = Null
  /\ pc' = "route_end"
  /\ UNCHANGED <<fnVars, routeVars, sessionVars, batchVars, favVars, apiVars, pupVars,
                 inflight, tierLog, httpIssued>>

\* res.end()
RouteEnd ==
  /\ pc = "route_end"
  /\ ended' = ended + 1
  /\ pc' = "ended"
  /\ UNCHANGED <<fnVars, req, db, httpStatus, sse, sessionVars, batchVars, thrown, favVars,
                 apiVars, pupVars, inflight, tierLog, httpIssued>>

\* ------------------------------------------------------------------------
\*  checkCompatibility
\* ------------------------------------------------------------------------

\* entry: the first progress line, chromium.executablePath() is awaited
CcEntry ==
  /\ pc = "cc_entry"
  /\ sse' = Append(sse, Progress("Launching browser (used only as final fallback)..."))
  /\ inflight' = {[plugin |-> 0, tier |-> "batch", op |-> "executablePath"]}
  /\ pc' = "cc_execPath"
  /\ UNCHANGED <<fnVars, routeVars, sessionVars, batchVars, thrown, favVars, apiVars,
                 pupVars, tierLog, httpIssued>>

\* executablePath settles; puppeteer.launch is called and awaited
CcExecPath ==
  /\ pc = "cc_execPath"
  /\ \/ /\ launchCalls' = launchCalls + 1
        /\ inflight' = {[plugin |-> 0, tier |-> "batch", op |-> "launch"]}
        /\ pc' = "cc_launch"
        /\ UNCHANGED thrown
     \/ /\ thrown' = "chromium binary not found"
        /\ inflight' = {}
        /\ pc' = "route_catch"
        /\ UNCHANGED launchCalls
  /\ UNCHANGED <<fnVars, routeVars, sse, browser, closeCalls, batchVars, favVars, apiVars,
                 pupVars, tierLog, httpIssued>>

\* puppeteer.launch settles
CcLaunch ==
  /\ pc = "cc_launch"
  /\ inflight' = {}
  /\ \/ /\ browser' = "open"
        /\ results' = <<>>
        /\ i' = 0
        /\ pc' = "cc_loop"
        /\ UNCHANGED thrown
     \/ /\ thrown' = "Failed to launch the browser process"
        /\ pc' = "route_catch"
        /\ UNCHANGED <<browser, results, i>>
  /\ UNCHANGED <<fnVars, routeVars, sse, launchCalls, closeCalls, plugins, result, favVars,
                 apiVars, pupVars, tierLog, httpIssued>>

\* the loop returning the results without closing the browser
CcLoopReturnsWithoutClose ==
  /\ pc = "cc_loop"
  /\ IF i < Len(plugins)
       THEN /\ sse' = Append(sse, Progress("[" \o ToString(i + 1) \o "/"
                        \o ToString(Len(plugins)) \o "] Processing: " \o plugin.name))
            /\ pc' = "fav_entry"
       ELSE /\ pc' = "route_complete"
            /\ UNCHANGED sse
  /\ UNCHANGED <<fnVars, routeVars, sessionVars, batchVars, thrown, favVars, apiVars,
                 pupVars, inflight, tierLog, httpIssued>>

\* the loop test and the "Processing" line of the next plugin
CcLoop ==
  /\ pc = "cc_loop"
  /\ IF i < Len(plugins)
       THEN /\ sse' = Append(sse, Progress("[" \o ToString(i + 1) \o "/"
                        \o ToString(Len(plugins)) \o "] Processing: " \o plugin.name))
            /\ pc' = "fav_entry"
       ELSE /\ pc' = "cc_close"
            /\ UNCHANGED sse
  /\ UNCHANGED <<fnVars, routeVars, sessionVars, batchVars, thrown, favVars, apiVars,
                 pupVars, inflight, tierLog, httpIssued>>

\* result = buildResult(...) without the progress line that follows it
CcBuildSilent ==
  /\ pc = "cc_build"
  /\ result' = buildResult(plugin, versions, req.targetDCVersion, method)
  /\ pc' = "cc_push"
  /\ UNCHANGED <<fnVars, routeVars, sse, sessionVars, plugins, i, results, thrown, favVars,
                 apiVars, pupVars, inflight, tierLog, httpIssued>>

\* result = buildResult(...) and its progress line
CcBuild ==
  /\ pc = "cc_build"
  /\ result' = buildResult(plugin, versions, req.targetDCVersion, method)
  /\ sse' = Append(sse, Progress("  OK Found "
               \o ToString(Len(result'.compatibleVersions)) \o " compatible versions"))
  /\ pc' = "cc_push"
  /\ UNCHANGED <<fnVars, routeVars, sessionVars, plugins, i, results, thrown, favVars,
                 apiVars, pupVars, inflight, tierLog, httpIssued>>

\* the loop body without its catch block: the plugin's failure rejects the batch
CcCatchRethrows ==
  /\ pc = "cc_catch"
  /\ pc' = "route_catch"
  /\ UNCHANGED <<fnVars, routeVars, sse, sessionVars, batchVars, thrown, favVars, apiVars,
                 pupVars, inflight, tierLog, httpIssued>>

\* the catch block of the loop body: the plugin's degraded result
CcCatch ==
  /\ pc = "cc_catch"
  /\ sse' = Append(sse, Progress("  X Error: " \o thrown))
  /\ result' = failedResult(plugin, req.targetDCVersion, thrown)
  /\ thrown' = Null
  /\ pc' = "cc_push"
  /\ UNCHANGED <<fnVars, routeVars, sessionVars, plugins, i, results, favVars, apiVars,
                 pupVars, inflight, tierLog, httpIssued>>

\* results.push(result); the locals of the iteration go out of scope
CcPush ==
  /\ pc = "cc_push"
  /\ results' = Append(results, result)
  /\ result' = Null
  /\ identifiers' = NoIdentifiers
  /\ pageUrl' = Null
  /\ errors' = <<>>
  /\ versions' = <<>>
  /\ method' = Null
  /\ allVersions' = <<>>
  /\ offset' = 0
  /\ apiLog' = <<>>
  /\ page' = "none"
  /\ loadClicks' = 0
  /\ rows' = <<>>
  /\ IF i < Len(plugins) - 1
       THEN /\ pc' = "cc_sleep"
            /\ inflight' = {[plugin |-> i + 1, tier |-> "batch", op |-> "sleep"]}
            /\ UNCHANGED i
       ELSE /\ i' = i + 1
            /\ pc' = "cc_loop"
            /\ UNCHANGED inflight
  /\ UNCHANGED <<fnVars, routeVars, sse, sessionVars, plugins, thrown, openPages,
                 sessionsUsed, tierLog, httpIssued>>

\* the pause between two plugins is over: i++
CcSleep ==
  /\ pc = "cc_sleep"
  /\ i' = i + 1
  /\ inflight' = {}
  /\ pc' = "cc_loop"
  /\ UNCHANGED <<fnVars, routeVars, sse, sessionVars, plugins, results, result, thrown,
                 favVars, apiVars, pupVars, tierLog, httpIssued>>

\* browser.close() is called and awaited
CcClose ==
  /\ pc = "cc_close"
  /\ closeCalls' = closeCalls + 1
  /\ inflight' = {[plugin |-> 0, tier |-> "batch", op |-> "close"]}
  /\ pc' = "cc_closing"
  /\ UNCHANGED <<fnVars, routeVars, sse, browser, launchCalls, batchVars, thrown, favVars,
                 apiVars, pupVars, tierLog, httpIssued>>

\* browser.close() settles: the session is disposed; a rejection rejects the batch
CcClosing ==
  /\ pc = "cc_closing"
  /\ browser' = "closed"
  /\ inflight' = {}
  /\ \/ /\ pc' = "route_complete"
        /\ UNCHANGED thrown
     \/ /\ thrown' = "Protocol error: Connection closed"
        /\ pc' = "route_catch"
  /\ UNCHANGED <<fnVars, routeVars, sse, launchCalls, closeCalls, batchVars, favVars,
                 apiVars, pupVars, tierLog, httpIssued>>

\* ------------------------------------------------------------------------
\*  fetchAllVersions and METHOD 1: INITIAL STATE
\* ------------------------------------------------------------------------

\* entry of fetchAllVersions: pageUrl, identifiers, errors = []
FavEntry ==
  /\ pc = "fav_entry"
  /\ pageUrl' = normalizeVersionHistoryUrl(plugin.marketplaceUrl)
  /\ identifiers' = extractAddonIdentifiers(plugin.marketplaceUrl)
  /\ errors' = <<>>
  /\ pc' = "t1_entry"
  /\ UNCHANGED <<fnVars, routeVars, sse, sessionVars, batchVars, thrown, versions, method,
                 apiVars, pupVars, inflight, tierLog, httpIssued>>

\* fetchFromInitialState called without await: the orchestrator goes on while the
\* request is pending
T1EntryNotAwaited ==
  /\ pc = "t1_entry"
  /\ sse' = Append(sse, Progress("  [Method 1] Fetching page HTML for initial-state JSON..."))
  /\ httpIssued' = TRUE
  /\ inflight' = Pending("initial-state", "httpGet")
  /\ tierLog' = Append(tierLog, TierEvent("initial-state", "start"))
  /\ pc' = "t2_gate"
  /\ UNCHANGED <<fnVars, routeVars, sessionVars, batchVars, thrown, favVars, apiVars, pupVars>>

\* entry of fetchFromInitialState: progress line, httpGet(pageUrl) is awaited
T1Entry ==
  /\ pc = "t1_entry"
  /\ sse' = Append(sse, Progress("  [Method 1] Fetching page HTML for initial-state JSON..."))
  /\ httpIssued' = TRUE
  /\ inflight' = Pending("initial-state", "httpGet")
  /\ tierLog' = Append(tierLog, TierEvent("initial-state", "start"))
  /\ pc' = "t1_http"
  /\ UNCHANGED <<fnVars, routeVars, sessionVars, batchVars, thrown, favVars, apiVars, pupVars>>

\* fetchFromInitialState without its check for an empty list
InitialStateOutcomeAllowsEmpty(html) ==
  IF ~html.marker
    THEN [error |-> "initial-state script tag not found", versions |-> <<>>]
  ELSE IF html.json = "bad"
    THEN [error |-> "initial-state JSON parse failed", versions |-> <<>>]
  ELSE [error |-> Null, versions |-> walkInitialState(html.nodes)]

\* what fetchFromInitialState makes of a fetched page: the error it throws, or
\* the versions it returns
InitialStateOutcome(html) ==
  LET found == walkInitialState(html.nodes)
  IN  IF ~html.marker
        THEN [error |-> "initial-state script tag not found", versions |-> <<>>]
      ELSE IF html.json = "bad"
        THEN [error |-> "initial-state JSON parse failed", versions |-> <<>>]
      ELSE IF found = <<>>
        THEN [error |-> "No version data found in initial-state", versions |-> <<>>]
      ELSE [error |-> Null, versions |-> found]

\* httpGet settles; the page is searched, parsed and walked
T1Http ==
  /\ pc = "t1_http"
  /\ inflight' = {}
  /\ \/ \E f \in HttpFailures :
          /\ thrown' = f
          /\ pc' = "t1_catch"
          /\ UNCHANGED <<sse, versions>>
     \/ \E html \in HtmlPages(Len(plugins)) :
          LET out == InitialStateOutcome(html)
          IN  IF out.error # Null
                THEN /\ thrown' = out.error
                     /\ pc' = "t1_catch"
                     /\ UNCHANGED <<sse, versions>>
                ELSE /\ versions' = out.versions
                     /\ sse' = Append(sse, Progress("  [Method 1] Found "
                                  \o ToString(Len(out.versions)) \o " versions"))
                     /\ pc' = "t1_ok"
                     /\ UNCHANGED thrown
  /\ UNCHANGED <<fnVars, routeVars, sessionVars, batchVars, identifiers, pageUrl, errors,
                 method, apiVars, pupVars, tierLog, httpIssued>>

\* T1Return without its return statement: control falls through to the REST tier
T1ReturnFallsThrough ==
  /\ pc = "t1_ok"
  /\ method' = "initial-state"
  /\ tierLog' = Append(tierLog, TierEvent("initial-state", "ok"))
  /\ pc' = "t2_gate"
  /\ UNCHANGED <<fnVars, routeVars, sse, sessionVars, batchVars, thrown, identifiers,
                 pageUrl, errors, versions, apiVars, pupVars, inflight, httpIssued>>

\* return { versions, method: 'initial-state' }
T1Return ==
  /\ pc = "t1_ok"
  /\ method' = "initial-state"
  /\ tierLog' = Append(tierLog, TierEvent("initial-state", "ok"))
  /\ pc' = "cc_build"
  /\ UNCHANGED <<fnVars, routeVars, sse, sessionVars, batchVars, thrown, identifiers,
                 pageUrl, errors, versions, apiVars, pupVars, inflight, httpIssued>>

\* catch (e) { errors.push(`initial-state: ${e.message}`) }
T1Catch ==
  /\ pc = "t1_catch"
  /\ errors' = Append(errors, "initial-state: " \o thrown)
  /\ thrown' = Null
  /\ tierLog' = Append(tierLog, TierEvent("initial-state", "fail"))
  /\ pc' = "t2_gate"
  /\ UNCHANGED <<fnVars, routeVars, sse, sessionVars, batchVars, identifiers, pageUrl,
                 versions, method, apiVars, pupVars, inflight, httpIssued>>

\* ------------------------------------------------------------------------
\*  METHOD 2: REST API
\* ------------------------------------------------------------------------

\* the REST tier entered without the test of the identifiers
T2GateAlways ==
  /\ pc = "t2_gate"
  /\ pc' = "t2_entry"
  /\ UNCHANGED <<fnVars, routeVars, sse, sessionVars, batchVars, thrown, favVars, apiVars,
                 pupVars, inflight, tierLog, httpIssued>>

\* if (identifiers.id || identifiers.slug)
T2Gate ==
  /\ pc = "t2_gate"
  /\ pc' = IF ~Falsy(identifiers.id) \/ ~Falsy(identifiers.slug)
             THEN "t2_entry" ELSE "t3_entry"
  /\ UNCHANGED <<fnVars, routeVars, sse, sessionVars, batchVars, thrown, favVars, apiVars,
                 pupVars, inflight, tierLog, httpIssued>>

\* the key taken from the slug first: slug || id
resourceKeySlugFirst ==
  IF ~Falsy(identifiers.slug) THEN identifiers.slug ELSE identifiers.id

\* const resourceKey = id || slug
resourceKey ==
  IF ~Falsy(identifiers.id) THEN identifiers.id ELSE identifiers.slug

\* one entry of apiLog; count is the number of items of an answered page, -1
\* for a request that failed or a body that is not JSON
ApiEvent(ev, off, count) == [ev |-> ev, offset |-> off, count |-> count]

\* entry of fetchFromAPI up to the loop
T2Entry ==
  /\ pc = "t2_entry"
  /\ tierLog' = Append(tierLog, TierEvent("rest-api", "start"))
  /\ IF Falsy(resourceKey)
       THEN /\ thrown' = "No ID or slug found"
            /\ pc' = "t2_catch"
            /\ UNCHANGED <<sse, allVersions, offset, apiLog>>
       ELSE /\ sse' = Append(sse, Progress("  [Method 2] REST API using key: " \o resourceKey))
            /\ allVersions' = <<>>
            /\ offset' = 0
            /\ apiLog' = <<>>
            /\ pc' = "t2_page"
            /\ UNCHANGED thrown
  /\ UNCHANGED <<fnVars, routeVars, sessionVars, batchVars, favVars, pupVars, inflight,
                 httpIssued>>

\* the URL of the page at the current offset
apiUrl ==
  "https://marketplace.atlassian.com/rest/2/addons/" \o resourceKey \o "/versions"
  \o "?hosting=datacenter&limit=" \o ToString(LIMIT) \o "&offset=" \o ToString(offset)

\* top of the do-loop: httpGet(apiUrl) is awaited
T2Page ==
  /\ pc = "t2_page"
  /\ sse' = IF offset = 0
              THEN Append(sse, Progress("  [Method 2] Requesting: " \o apiUrl))
              ELSE sse
  /\ httpIssued' = TRUE
  /\ inflight' = Pending("rest-api", "httpGet")
  /\ apiLog' = Append(apiLog, ApiEvent("request", offset, 0))
  /\ pc' = "t2_http"
  /\ UNCHANGED <<fnVars, routeVars, sessionVars, batchVars, thrown, favVars, allVersions,
                 offset, pupVars, tierLog>>

\* a failing page request ending the loop with what was gathered so far
T2HttpKeepsPartial ==
  /\ pc = "t2_http"
  /\ inflight' = {}
  /\ \/ \E f \in HttpFailures :
          /\ thrown' = f
          /\ apiLog' = Append(apiLog, ApiEvent("response", offset, -1))
          /\ pc' = IF allVersions = <<>> THEN "t2_catch" ELSE "t2_end"
          /\ UNCHANGED <<allVersions, offset>>
     \/ \E body \in ApiBodies(Len(plugins)) :
          /\ body.count = LIMIT => offset < MaxFullPages * LIMIT
          /\ apiLog' = Append(apiLog, ApiEvent("response", offset,
                                               IF body.json THEN body.count ELSE -1))
          /\ IF ~body.json
               THEN /\ thrown' = "Unexpected token < in JSON at position 0"
                    /\ pc' = "t2_catch"
                    /\ UNCHANGED <<allVersions, offset>>
             ELSE IF body.count = 0
               THEN /\ pc' = "t2_end"
                    /\ UNCHANGED <<thrown, allVersions, offset>>
             ELSE /\ allVersions' = allVersions \o ApiEntries(body.nodes)
                  /\ offset' = offset + LIMIT
                  /\ pc' = IF body.count < LIMIT THEN "t2_end" ELSE "t2_delay"
                  /\ UNCHANGED thrown
  /\ UNCHANGED <<fnVars, routeVars, sse, sessionVars, batchVars, favVars, pupVars, tierLog,
                 httpIssued>>

\* the loop without its exit on a page shorter than LIMIT
T2HttpNoShortStop ==
  /\ pc = "t2_http"
  /\ inflight' = {}
  /\ \/ \E f \in HttpFailures :
          /\ thrown' = f
          /\ apiLog' = Append(apiLog, ApiEvent("response", offset, -1))
          /\ pc' = "t2_catch"
          /\ UNCHANGED <<allVersions, offset>>
     \/ \E body \in ApiBodies(Len(plugins)) :
          /\ body.count = LIMIT => offset < MaxFullPages * LIMIT
          /\ apiLog' = Append(apiLog, ApiEvent("response", offset,
                                               IF body.json THEN body.count ELSE -1))
          /\ IF ~body.json
               THEN /\ thrown' = "Unexpected token < in JSON at position 0"
                    /\ pc' = "t2_catch"
                    /\ UNCHANGED <<allVersions, offset>>
             ELSE IF body.count = 0
               THEN /\ pc' = "t2_end"
                    /\ UNCHANGED <<thrown, allVersions, offset>>
             ELSE /\ allVersions' = allVersions \o ApiEntries(body.nodes)
                  /\ offset' = offset + LIMIT
                  /\ pc' = "t2_delay"
                  /\ UNCHANGED thrown
  /\ UNCHANGED <<fnVars, routeVars, sse, sessionVars, batchVars, favVars, pupVars, tierLog,
                 httpIssued>>

\* httpGet settles; one page is parsed and its items are gathered
T2Http ==
  /\ pc = "t2_http"
  /\ inflight' = {}
  /\ \/ \E f \in HttpFailures :
          /\ thrown' = f
          /\ apiLog' = Append(apiLog, ApiEvent("response", offset, -1))
          /\ pc' = "t2_catch"
          /\ UNCHANGED <<allVersions, offset>>
     \/ \E body \in ApiBodies(Len(plugins)) :
          /\ body.count = LIMIT => offset < MaxFullPages * LIMIT
          /\ apiLog' = Append(apiLog, ApiEvent("response", offset,
                                               IF body.json THEN body.count ELSE -1))
          /\ IF ~body.json
               THEN /\ thrown' = "Unexpected token < in JSON at position 0"
                    /\ pc' = "t2_catch"
                    /\ UNCHANGED <<allVersions, offset>>
             ELSE IF body.count = 0
               THEN /\ pc' = "t2_end"
                    /\ UNCHANGED <<thrown, allVersions, offset>>
             ELSE /\ allVersions' = allVersions \o ApiEntries(body.nodes)
                  /\ offset' = offset + LIMIT
                  /\ pc' = IF body.count < LIMIT THEN "t2_end" ELSE "t2_delay"
                  /\ UNCHANGED thrown
  /\ UNCHANGED <<fnVars, routeVars, sse, sessionVars, batchVars, favVars, pupVars, tierLog,
                 httpIssued>>

\* await new Promise(r => setTimeout(r, 400)) between two pages
T2Delay ==
  /\ pc = "t2_delay"
  /\ apiLog' = Append(apiLog, ApiEvent("delay", offset, 0))
  /\ pc' = "t2_page"
  /\ UNCHANGED <<fnVars, routeVars, sse, sessionVars, batchVars, thrown, favVars,
                 allVersions, offset, pupVars, inflight, tierLog, httpIssued>>

\* after the loop: zero records fail the tier
T2End ==
  /\ pc = "t2_end"
  /\ IF allVersions = <<>>
       THEN /\ thrown' = "API returned 0 DC versions"
            /\ pc' = "t2_catch"
            /\ UNCHANGED <<sse, versions>>
       ELSE /\ sse' = Append(sse, Progress("  [Method 2] Found "
                         \o ToString(Len(allVersions)) \o " versions"))
            /\ versions' = allVersions
            /\ pc' = "t2_ok"
            /\ UNCHANGED thrown
  /\ UNCHANGED <<fnVars, routeVars, sessionVars, batchVars, identifiers, pageUrl, errors,
                 method, apiVars, pupVars, inflight, tierLog, httpIssued>>

\* return { versions, method: 'rest-api' }
T2Return ==
  /\ pc = "t2_ok"
  /\ method' = "rest-api"
  /\ tierLog' = Append(tierLog, TierEvent("rest-api", "ok"))
  /\ pc' = "cc_build"
  /\ UNCHANGED <<fnVars, routeVars, sse, sessionVars, batchVars, thrown, identifiers,
                 pageUrl, errors, versions, apiVars, pupVars, inflight, httpIssued>>

\* the catch of the REST tier recording the message without the tier's tag
T2CatchUntagged ==
  /\ pc = "t2_catch"
  /\ errors' = Append(errors, thrown)
  /\ thrown' = Null
  /\ tierLog' = Append(tierLog, TierEvent("rest-api", "fail"))
  /\ pc' = "t3_entry"
  /\ UNCHANGED <<fnVars, routeVars, sse, sessionVars, batchVars, identifiers, pageUrl,
                 versions, method, apiVars, pupVars, inflight, httpIssued>>

\* catch (e) { errors.push(`rest-api: ${e.message}`) }
T2Catch ==
  /\ pc = "t2_catch"
  /\ errors' = Append(errors, "rest-api: " \o thrown)
  /\ thrown' = Null
  /\ tierLog' = Append(tierLog, TierEvent("rest-api", "fail"))
  /\ pc' = "t3_entry"
  /\ UNCHANGED <<fnVars, routeVars, sse, sessionVars, batchVars, identifiers, pageUrl,
                 versions, method, apiVars, pupVars, inflight, httpIssued>>

\* ------------------------------------------------------------------------
\*  METHOD 3: PUPPETEER
\* ------------------------------------------------------------------------

\* entry of fetchFromPuppeteer: progress line, browser.newPage() is awaited
T3Entry ==
  /\ pc = "t3_entry"
  /\ sse' = Append(sse, Progress("  [Method 3] Browser rendering: " \o pageUrl))
  /\ sessionsUsed' = sessionsUsed \cup
                       {[plugin |-> i + 1, session |-> launchCalls, state |-> browser]}
  /\ page' = "none"
  /\ loadClicks' = 0
  /\ rows' = <<>>
  /\ inflight' = Pending("puppeteer", "newPage")
  /\ tierLog' = Append(tierLog, TierEvent("puppeteer", "start"))
  /\ pc' = "t3_newPage"
  /\ UNCHANGED <<fnVars, routeVars, sessionVars, batchVars, thrown, favVars, apiVars,
                 openPages, httpIssued>>

\* newPage settles; page.setUserAgent is awaited
T3NewPage ==
  /\ pc = "t3_newPage"
  /\ \/ /\ page' = "open"
        /\ openPages' = openPages + 1
        /\ inflight' = Pending("puppeteer", "setUserAgent")
        /\ pc' = "t3_setUA"
        /\ UNCHANGED thrown
     \/ \E f \in BrowserFailures :
          /\ thrown' = f
          /\ inflight' = {}
          /\ pc' = "t3_catch"
          /\ UNCHANGED <<page, openPages>>
  /\ UNCHANGED <<fnVars, routeVars, sse, sessionVars, batchVars, favVars, apiVars,
                 loadClicks, rows, sessionsUsed, tierLog, httpIssued>>

\* setUserAgent settles (before the try block); setExtraHTTPHeaders is awaited
T3SetUA ==
  /\ pc = "t3_setUA"
  /\ \/ /\ inflight' = Pending("puppeteer", "setExtraHTTPHeaders")
        /\ pc' = "t3_headers"
        /\ UNCHANGED thrown
     \/ \E f \in BrowserFailures :
          /\ thrown' = f
          /\ inflight' = {}
          /\ pc' = "t3_catch"
  /\ UNCHANGED <<fnVars, routeVars, sse, sessionVars, batchVars, favVars, apiVars, pupVars,
                 tierLog, httpIssued>>

\* setExtraHTTPHeaders settles (before the try block); page.goto is awaited
T3Headers ==
  /\ pc = "t3_headers"
  /\ \/ /\ inflight' = Pending("puppeteer", "goto")
        /\ pc' = "t3_goto"
        /\ UNCHANGED thrown
     \/ \E f \in BrowserFailures :
          /\ thrown' = f
          /\ inflight' = {}
          /\ pc' = "t3_catch"
  /\ UNCHANGED <<fnVars, routeVars, sse, sessionVars, batchVars, favVars, apiVars, pupVars,
                 tierLog, httpIssued>>

\* page.goto settles; the treegrid selector is awaited
T3Goto ==
  /\ pc = "t3_goto"
  /\ \/ /\ inflight' = Pending("puppeteer", "waitForSelector")
        /\ pc' = "t3_wait"
        /\ UNCHANGED thrown
     \/ \E f \in BrowserFailures :
          /\ thrown' = f
          /\ inflight' = Pending("puppeteer", "close")
          /\ pc' = "t3_cleanup"
  /\ UNCHANGED <<fnVars, routeVars, sse, sessionVars, batchVars, favVars, apiVars, pupVars,
                 tierLog, httpIssued>>

\* the treegrid wait settles; its failure falls back to the looser selector
T3Wait ==
  /\ pc = "t3_wait"
  /\ \/ /\ inflight' = Pending("puppeteer", "evaluate")
        /\ pc' = "t3_click"
     \/ /\ inflight' = Pending("puppeteer", "waitForSelector")
        /\ pc' = "t3_waitFallback"
  /\ UNCHANGED <<fnVars, routeVars, sse, sessionVars, batchVars, thrown, favVars, apiVars,
                 pupVars, tierLog, httpIssued>>

\* the fallback wait settles
T3WaitFallback ==
  /\ pc = "t3_waitFallback"
  /\ \/ /\ inflight' = Pending("puppeteer", "evaluate")
        /\ pc' = "t3_click"
        /\ UNCHANGED thrown
     \/ \E f \in BrowserFailures :
          /\ thrown' = f
          /\ inflight' = Pending("puppeteer", "close")
          /\ pc' = "t3_cleanup"
  /\ UNCHANGED <<fnVars, routeVars, sse, sessionVars, batchVars, favVars, apiVars, pupVars,
                 tierLog, httpIssued>>

\* the load-more evaluate settles: clicked, not clicked, or failed
T3Click ==
  /\ pc = "t3_click"
  /\ \/ /\ loadClicks < MaxLoadMore
        /\ inflight' = Pending("puppeteer", "clickDelay")
        /\ pc' = "t3_clickDelay"
        /\ UNCHANGED thrown
     \/ /\ inflight' = Pending("puppeteer", "evaluate")
        /\ pc' = "t3_extract"
        /\ UNCHANGED thrown
     \/ \E f \in BrowserFailures :
          /\ thrown' = f
          /\ inflight' = Pending("puppeteer", "close")
          /\ pc' = "t3_cleanup"
  /\ UNCHANGED <<fnVars, routeVars, sse, sessionVars, batchVars, favVars, apiVars, pupVars,
                 tierLog, httpIssued>>

\* the pause after a click: loadClicks++, a progress line every fifth click,
\* and the loop test
T3ClickDelay ==
  /\ pc = "t3_clickDelay"
  /\ loadClicks' = loadClicks + 1
  /\ sse' = IF loadClicks' % 5 = 0
              THEN Append(sse, Progress("  [Method 3] Expanded history ("
                                        \o ToString(loadClicks') \o " clicks)"))
              ELSE sse
  /\ inflight' = Pending("puppeteer", "evaluate")
  /\ pc' = IF loadClicks' < MaxLoadClicks THEN "t3_click" ELSE "t3_extract"
  /\ UNCHANGED <<fnVars, routeVars, sessionVars, batchVars, thrown, favVars, apiVars, page,
                 rows, openPages, sessionsUsed, tierLog, httpIssued>>

\* the extraction evaluate settles; page.close() is awaited
T3Extract ==
  /\ pc = "t3_extract"
  /\ inflight' = Pending("puppeteer", "close")
  /\ \/ \E r \in DomRowSets :
          /\ rows' = r
          /\ pc' = "t3_close"
          /\ UNCHANGED thrown
     \/ \E f \in BrowserFailures :
          /\ thrown' = f
          /\ pc' = "t3_cleanup"
          /\ UNCHANGED rows
  /\ UNCHANGED <<fnVars, routeVars, sse, sessionVars, batchVars, favVars, apiVars, page,
                 loadClicks, openPages, sessionsUsed, tierLog, httpIssued>>

\* page.close() of the try block settles (the call disposes the page); zero rows
\* fail the tier, otherwise the rows are mapped and returned
T3Close ==
  /\ pc = "t3_close"
  /\ page' = "closed"
  /\ openPages' = openPages - 1
  /\ \/ /\ rows = <<>>
        /\ thrown' = "No rows found. DOM selector mismatch."
        /\ inflight' = Pending("puppeteer", "close")
        /\ pc' = "t3_cleanup"
        /\ UNCHANGED <<sse, versions>>
     \/ /\ rows # <<>>
        /\ sse' = Append(sse, Progress("  [Method 3] Extracted " \o ToString(Len(rows))
                                       \o " versions from DOM"))
        /\ versions' = MapDomRows(rows)
        /\ inflight' = {}
        /\ pc' = "t3_ok"
        /\ UNCHANGED thrown
     \/ \E f \in BrowserFailures :
          /\ thrown' = f
          /\ inflight' = Pending("puppeteer", "close")
          /\ pc' = "t3_cleanup"
          /\ UNCHANGED <<sse, versions>>
  /\ UNCHANGED <<fnVars, routeVars, sessionVars, batchVars, identifiers, pageUrl, errors,
                 method, apiVars, loadClicks, rows, sessionsUsed, tierLog, httpIssued>>

\* catch (err) { try { await page.close() } catch (_) {} throw err }
T3Cleanup ==
  /\ pc = "t3_cleanup"
  /\ page' = "closed"
  /\ openPages' = IF page = "open" THEN openPages - 1 ELSE openPages
  /\ inflight' = {}
  /\ pc' = "t3_catch"
  /\ UNCHANGED <<fnVars, routeVars, sse, sessionVars, batchVars, thrown, favVars, apiVars,
                 loadClicks, rows, sessionsUsed, tierLog, httpIssued>>

\* return { versions, method: 'puppeteer' }
T3Return ==
  /\ pc = "t3_ok"
  /\ method' = "puppeteer"
  /\ tierLog' = Append(tierLog, TierEvent("puppeteer", "ok"))
  /\ pc' = "cc_build"
  /\ UNCHANGED <<fnVars, routeVars, sse, sessionVars, batchVars, thrown, identifiers,
                 pageUrl, errors, versions, apiVars, pupVars, inflight, httpIssued>>

\* catch (e) { errors.push(`puppeteer: ${e.message}`) } and the final throw
\* (the bullet character of the message is written * here)
T3Catch ==
  /\ pc = "t3_catch"
  /\ errors' = Append(errors, "puppeteer: " \o thrown)
  /\ thrown' = "All methods failed:\n * " \o Join(errors', "\n * ")
  /\ tierLog' = Append(tierLog, TierEvent("puppeteer", "fail"))
  /\ pc' = "cc_catch"
  /\ UNCHANGED <<fnVars, routeVars, sse, sessionVars, batchVars, identifiers, pageUrl,
                 versions, method, apiVars, pupVars, inflight, httpIssued>>

\* ------------------------------------------------------------------------
\*  SPECIFICATION
\* ------------------------------------------------------------------------

Next ==
  \/ Request \/ FindPlugins \/ RouteComplete \/ RouteCatch \/ RouteEnd
  \/ CcEntry \/ CcExecPath \/ CcLaunch \/ CcLoop \/ CcBuild \/ CcCatch
  \/ CcPush \/ CcSleep \/ CcClose \/ CcClosing
  \/ FavEntry \/ T1Entry \/ T1Http \/ T1Return \/ T1Catch
  \/ T2Gate \/ T2Entry \/ T2Page \/ T2Http \/ T2Delay \/ T2End \/ T2Return \/ T2Catch
  \/ T3Entry \/ T3NewPage \/ T3SetUA \/ T3Headers \/ T3Goto \/ T3Wait
  \/ T3WaitFallback \/ T3Click \/ T3ClickDelay \/ T3Extract \/ T3Close
  \/ T3Cleanup \/ T3Return \/ T3Catch

Spec == Init /\ [][Next]_vars

\* the steps of the loop of fetchFromAPI
RestSteps == T2Page \/ T2Http \/ T2Delay \/ T2End

\* every page request settles (httpGet has a 30 s timeout), the 400 ms timer
\* fires, and the event loop runs the continuation that is ready
RestLiveSpec == Spec /\ WF_vars(RestSteps)

\* ------------------------------------------------------------------------
\*  THE FUNCTIONS OF scraper.js CALLED ON THEIR OWN
\* ------------------------------------------------------------------------

\* no request is being served
FnInit ==
  /\ req = [type |-> Null, targetDCVersion |-> Null]
  /\ db = <<>>
  /\ pc = "idle"
  /\ httpStatus = 0
  /\ sse = <<>>
  /\ ended = 0
  /\ plugins = <<>>
  /\ browser = "none"
  /\ launchCalls = 0
  /\ closeCalls = 0
  /\ i = 0
  /\ results = <<>>
  /\ result = Null
  /\ thrown = Null
  /\ identifiers = NoIdentifiers
  /\ pageUrl = Null
  /\ errors = <<>>
  /\ versions = <<>>
  /\ method = Null
  /\ allVersions = <<>>
  /\ offset = 0
  /\ page = "none"
  /\ loadClicks = 0
  /\ rows = <<>>
  /\ openPages = 0
  /\ inflight = {}
  /\ tierLog = <<>>
  /\ httpIssued = FALSE
  /\ sessionsUsed = {}
  /\ apiLog = <<>>
  /\ call \in BuildResultCalls \cup CompareVersionsCalls \cup IsVersionInRangeCalls
            \cup ParseCompatibilityStringCalls \cup ExtractAddonIdentifiersCalls
            \cup NormalizeVersionHistoryUrlCalls \cup HttpGetCalls
  /\ ret = <<>>

programVars == <<req, db, pc, httpStatus, sse, ended, plugins, browser, launchCalls,
                 closeCalls, i, results, result, thrown, identifiers, pageUrl,
                 errors, versions, method, allVersions, offset, page, loadClicks,
                 rows, openPages, inflight, tierLog, httpIssued, sessionsUsed, apiLog>>

\* buildResult(plugin, rawVersions, targetDCVersion, fetchMethod)
BuildResultCall ==
  /\ call.fn = "buildResult"
  /\ ret = <<>>
  /\ ret' = <<buildResult(call.args[1], call.args[2], call.args[3], call.args[4])>>
  /\ UNCHANGED <<call, programVars>>

\* compareVersions on every ordered pair of the three strings:
\* ret[1][x][y] is compareVersions(args[x], args[y])
CompareVersionsCall ==
  /\ call.fn = "compareVersions"
  /\ ret = <<>>
  /\ ret' = <<[x \in 1..3 |-> [y \in 1..3 |-> compareVersions(call.args[x], call.args[y])]]>>
  /\ UNCHANGED <<call, programVars>>

\* isVersionInRange(target, minVer, maxVer)
IsVersionInRangeCall ==
  /\ call.fn = "isVersionInRange"
  /\ ret = <<>>
  /\ ret' = <<isVersionInRange(call.args[1], call.args[2], call.args[3])>>
  /\ UNCHANGED <<call, programVars>>

\* parseCompatibilityString(text)
ParseCompatibilityStringCall ==
  /\ call.fn = "parseCompatibilityString"
  /\ ret = <<>>
  /\ ret' = <<parseCompatibilityString(call.args[1])>>
  /\ UNCHANGED <<call, programVars>>

\* extractAddonIdentifiers(marketplaceUrl)
ExtractAddonIdentifiersCall ==
  /\ call.fn = "extractAddonIdentifiers"
  /\ ret = <<>>
  /\ ret' = <<extractAddonIdentifiers(call.args[1])>>
  /\ UNCHANGED <<call, programVars>>

\* normalizeVersionHistoryUrl(rawUrl)
NormalizeVersionHistoryUrlCall ==
  /\ call.fn = "normalizeVersionHistoryUrl"
  /\ ret = <<>>
  /\ ret' = <<normalizeVersionHistoryUrl(call.args[1])>>
  /\ UNCHANGED <<call, programVars>>

\* the answer the upstream gives to the request httpGet has sent
HttpAnswerNow == call.args[2][call.args[1]]

\* the response callback takes the redirect branch
HttpRedirected ==
  /\ UrlValid(call.args[1])
  /\ HttpAnswerNow.status \in {301, 302, 307, 308}
  /\ ~Falsy(HttpAnswerNow.location)

\* httpGet settles: new URL(reqUrl) throws, the request times out, or the
\* response callback rejects on a status other than 200 or resolves with the body
HttpGetSettle ==
  /\ call.fn = "httpGet"
  /\ ret = <<>>
  /\ ~HttpRedirected
  /\ ret' = IF ~UrlValid(call.args[1])
              THEN <<[settled |-> "rejected", value |-> "Invalid URL"]>>
            ELSE IF HttpAnswerNow.status = 0
              THEN <<[settled |-> "rejected", value |-> "Timeout"]>>
            ELSE IF HttpAnswerNow.status # 200
              THEN <<[settled |-> "rejected",
                      value |-> "HTTP " \o ToString(HttpAnswerNow.status)]>>
            ELSE <<[settled |-> "resolved", value |-> "body"]>>
  /\ UNCHANGED <<call, programVars>>

\* the response callback on 301/302/307/308 with a location header:
\* return httpGet(res.headers.location, extraHeaders).then(resolve).catch(reject)
HttpGetRedirect ==
  /\ call.fn = "httpGet"
  /\ ret = <<>>
  /\ HttpRedirected
  /\ call' = [call EXCEPT !.args = <<HttpAnswerNow.location, call.args[2]>>]
  /\ UNCHANGED <<ret, programVars>>

\* x || '' on a cell value
OrEmpty(x) == IF Falsy(x) THEN "" ELSE x

\* the detail row of a result without compatible versions (excelGenerator.js
\* 265-275): seven cells
NoCompatibleRow(entry) ==
  <<entry.pluginName, "No compatible versions found", OrEmpty(entry.error),
    "", "", "", "">>

\* the section heading of a plugin, one merged cell (the pictograph and the
\* dash of the text are written in ASCII)
SectionHeading(entry) ==
  <<"  [pkg] " \o entry.pluginName \o " - Current: v" \o entry.currentVersion
      \o " - " \o ToString(Len(entry.compatibleVersions))
      \o " compatible version(s) found">>

\* const isCurrentVersion = cv.pluginVersion === result.currentVersion
isCurrentVersion(cv, entry) == cv.pluginVersion = entry.currentVersion

\* the detail row of one entry of compatibleVersions: seven cells (the star and
\* the check mark of the cell texts are written in ASCII)
DetailRow(entry, cv) ==
  <<entry.pluginName,
    cv.pluginVersion \o (IF isCurrentVersion(cv, entry) THEN " * (current)" ELSE ""),
    OrEmpty(cv.compatibility),
    OrEmpty(cv.compatibilityRange),
    OrEmpty(cv.releaseDate),
    OrEmpty(cv.releaseSummary),
    IF isCurrentVersion(cv, entry) THEN "[x] Yes" ELSE "No">>

\* the rows one result contributes to the details sheet
DetailRowsOf(entry) ==
  IF entry.compatibleVersions = <<>> THEN <<NoCompatibleRow(entry)>>
  ELSE <<SectionHeading(entry)>>
       \o [k \in 1..Len(entry.compatibleVersions) |->
             DetailRow(entry, entry.compatibleVersions[k])]

RECURSIVE DetailRows(_)
\* results.forEach(result => ...) on the details sheet, from row 3 on
DetailRows(resultList) ==
  IF resultList = <<>> THEN <<>>
  ELSE DetailRowsOf(Head(resultList)) \o DetailRows(Tail(resultList))

\* generateExcel(results, productType, targetDCVersion) on the result that
\* buildResult has returned; of the workbook it returns the rows of the details
\* sheet are kept
GenerateExcelCall ==
  /\ call.fn = "buildResult"
  /\ ret # <<>>
  /\ call' = [fn |-> "generateExcel", args |-> <<<<ret[1]>>, "confluence", call.args[3]>>]
  /\ ret' = <<[wsDetails |-> DetailRows(<<ret[1]>>)]>>
  /\ UNCHANGED programVars

FnNext ==
  \/ BuildResultCall \/ CompareVersionsCall \/ IsVersionInRangeCall
  \/ GenerateExcelCall
  \/ ParseCompatibilityStringCall \/ ExtractAddonIdentifiersCall
  \/ NormalizeVersionHistoryUrlCall
  \/ HttpGetSettle \/ HttpGetRedirect

FnSpec == FnInit /\ [][FnNext]_vars

\* every request httpGet sends is answered or times out (timeout: 30000)
HttpLiveSpec == FnSpec /\ WF_vars(HttpGetSettle \/ HttpGetRedirect)

\* ------------------------------------------------------------------------
\*  PROPERTIES
\* ------------------------------------------------------------------------

\* the tiers in the order fetchAllVersions lists them
TierOrder == <<"initial-state", "rest-api", "puppeteer">>

TierRankOf ==
  [tier \in {TierOrder[r] : r \in 1..Len(TierOrder)} |->
     CHOOSE r \in 1..Len(TierOrder) : TierOrder[r] = tier]

TierRank(tier) == TierRankOf[tier]

\* the positions of tierLog that belong to plugin number p
EventsOf(p) == {k \in 1..Len(tierLog) : tierLog[k].plugin = p}

\* the plugins that have an event in tierLog
LoggedPlugins == {tierLog[k].plugin : k \in 1..Len(tierLog)}

\* tier `tier` of plugin p has the event ev in tierLog before position k
Before(p, tier, ev, k) ==
  \E j \in 1..(k - 1) : tierLog[j] = [plugin |-> p, tier |-> tier, ev |-> ev]

\* C1: for one plugin the tiers are attempted strictly in the order
\* initial-state, rest-api, puppeteer.  A tier starts only after every earlier
\* tier has failed (the REST tier may instead not have been attempted at all),
\* never after any tier of that plugin returned successfully, and never twice;
\* so once the initial-state tier returns, neither of the other two is entered.
C1_TiersInOrderFirstSuccessWins ==
  \A k \in 1..Len(tierLog) :
    tierLog[k].ev = "start" =>
      /\ \A j \in 1..(k - 1) :
           tierLog[j].plugin = tierLog[k].plugin =>
             /\ tierLog[j].ev # "ok"
             /\ TierRank(tierLog[j].tier) < TierRank(tierLog[k].tier)
      /\ \A r \in 1..(TierRank(tierLog[k].tier) - 1) :
           \/ Before(tierLog[k].plugin, TierOrder[r], "fail", k)
           \/ /\ TierOrder[r] = "rest-api"
              /\ ~Before(tierLog[k].plugin, "rest-api", "start", k)

\* C1 witness: a plugin for which all three tiers were attempted, the first two
\* failed and the third returned
C1_Witness ==
  /\ pc = "cc_build"
  /\ method = "puppeteer"
  /\ \E k \in EventsOf(i + 1) : tierLog[k] = TierEvent("rest-api", "fail")
  /\ \E k \in EventsOf(i + 1) : tierLog[k] = TierEvent("initial-state", "fail")

\* the identity fields of a result entry are those of the plugin it was built for
EntryOf(entry, pl) ==
  /\ entry.pluginName = pl.name
  /\ entry.pluginUrl = pl.marketplaceUrl
  /\ entry.currentVersion = pl.currentVersion

\* C2: the result list grows in input order, one entry per plugin, and when
\* checkCompatibility returns it has exactly as many entries as the plugin list,
\* the k-th entry carrying the name, URL and current version of the k-th plugin,
\* whichever tiers succeeded or failed for each plugin.
C2_OneEntryPerPluginInInputOrder ==
  /\ Len(results) <= Len(plugins)
  /\ \A k \in 1..Len(results) : EntryOf(results[k], plugins[k])
  /\ pc = "route_complete" => Len(results) = Len(plugins)

\* C2 witness: checkCompatibility has returned for a batch of two different
\* plugins, the first of which failed entirely while the second succeeded
C2_Witness ==
  /\ pc = "route_complete"
  /\ Len(plugins) = 2
  /\ plugins[1] # plugins[2]
  /\ results[1].fetchMethod = "failed"
  /\ results[2].fetchMethod = "rest-api"

\* the plugins for which the last tier failed, so that fetchAllVersions threw
Exhausted ==
  {p \in LoggedPlugins :
     \E k \in EventsOf(p) : tierLog[k].tier = "puppeteer" /\ tierLog[k].ev = "fail"}

\* the message fetchAllVersions throws for the tagged failures errs
AllMethodsFailed(errs) == "All methods failed:\n * " \o Join(errs, "\n * ")

\* the loop of checkCompatibility is over
LoopDone == pc \in {"cc_close", "cc_closing", "route_complete"}

\* C3: a plugin whose tiers all failed does not abort the batch.  Its failure is
\* caught in the loop body and becomes a result with compatible = null, an empty
\* compatibleVersions list and error equal to the aggregated message; the plugins
\* after it are still processed, and when the loop is over the list has one entry
\* per plugin, of which exactly the entries of the exhausted plugins have
\* compatible = null (so exactly one when exactly one plugin was exhausted).
C3_ExhaustedPluginDoesNotAbortBatch ==
  /\ \A p \in Exhausted :
       \/ /\ Len(results) >= p
          /\ results[p].compatible = Null
          /\ results[p].compatibleVersions = <<>>
          /\ StartsWith(results[p].error, "All methods failed:")
       \/ /\ Len(results) = p - 1
          /\ i = p - 1
          /\ pc \in {"cc_catch", "cc_push"}
  /\ (pc = "cc_push" /\ (i + 1) \in Exhausted) =>
       /\ result.compatible = Null
       /\ result.compatibleVersions = <<>>
       /\ result.error = AllMethodsFailed(errors)
  /\ LoopDone =>
       /\ Len(results) = Len(plugins)
       /\ LoggedPlugins = 1..Len(plugins)
       /\ {k \in 1..Len(results) : results[k].compatible = Null} = Exhausted

\* C3 witness: the loop is over for two plugins of which exactly the first was
\* exhausted, and the second has a result that is not the degraded one
C3_Witness ==
  /\ LoopDone
  /\ Len(plugins) = 2
  /\ Exhausted = {1}
  /\ results[2].compatible \in {JsTrue, JsFalse}

\* the tiers of plugin p that returned successfully
SucceededTiers(p) ==
  {tierLog[k].tier : k \in {j \in EventsOf(p) : tierLog[j].ev = "ok"}}

\* C4: in every result entry compatible is null exactly when every attempted tier
\* failed for that plugin, and then, and only then, error is non-null and
\* fetchMethod is "failed"; for a plugin one of whose tiers returned, compatible is
\* true or false, error is null and fetchMethod is the name of that tier.
C4_NullCompatibleIffAcquisitionFailed ==
  \A k \in 1..Len(results) :
    /\ results[k].compatible = Null <=> k \in Exhausted
    /\ results[k].error # Null <=> k \in Exhausted
    /\ results[k].fetchMethod = "failed" <=> k \in Exhausted
    /\ k \notin Exhausted =>
         /\ results[k].compatible \in {JsTrue, JsFalse}
         /\ SucceededTiers(k) = {results[k].fetchMethod}

\* C4 witness: a result list holding a failed entry (null) next to an entry of a
\* plugin whose data was acquired and whose current version is not compatible
\* (false)
C4_Witness ==
  /\ Len(results) = 2
  /\ results[1].compatible = JsFalse
  /\ results[1].error = Null
  /\ results[2].compatible = Null
  /\ results[2].fetchMethod = "failed"

\* the tiers of the events ev of plugin p, in the order they happened
TiersWith(p, ev) ==
  LET evs == SelectSeq(tierLog, LAMBDA e : e.plugin = p /\ e.ev = ev)
  IN  [k \in 1..Len(evs) |-> evs[k].tier]

\* errs holds one entry per tier of `tiers`, in order, each tagged with its tier
TaggedInOrder(errs, tiers) ==
  /\ Len(errs) = Len(tiers)
  /\ \A k \in 1..Len(errs) : StartsWith(errs[k], tiers[k] \o ": ")

\* C5 as stated: every failure of an attempted tier is one tagged entry in attempt
\* order, and when no tier succeeds the combined error lists one entry for each
\* of the three tiers.
C5_CombinedErrorListsThreeTiers ==
  /\ Len(results) = i => TaggedInOrder(errors, TiersWith(i + 1, "fail"))
  /\ pc = "cc_catch" =>
       /\ thrown = AllMethodsFailed(errors)
       /\ TaggedInOrder(errors, TierOrder)

\* C5 amended: every failure of an attempted tier is one tagged entry in attempt
\* order, and when no tier succeeds the combined error lists one entry for each
\* tier that was attempted: three when the REST tier was attempted, and two
\* (initial-state, puppeteer) when it was skipped for want of an id and a slug.
C5_CombinedErrorListsAttemptedTiers ==
  /\ Len(results) = i => TaggedInOrder(errors, TiersWith(i + 1, "fail"))
  /\ pc = "cc_catch" =>
       /\ thrown = AllMethodsFailed(errors)
       /\ TaggedInOrder(errors, TiersWith(i + 1, "start"))
       /\ TiersWith(i + 1, "start") =
            IF Falsy(identifiers.id) /\ Falsy(identifiers.slug)
              THEN <<"initial-state", "puppeteer">>
              ELSE TierOrder

\* C5 witness: fetchAllVersions has thrown for a plugin whose REST tier was
\* skipped, with a combined error of two entries
C5_Witness ==
  /\ pc = "cc_catch"
  /\ Falsy(identifiers.id) /\ Falsy(identifiers.slug)
  /\ Len(errors) = 2
  /\ thrown = AllMethodsFailed(errors)

\* what identifier resolution gives for each URL of the plugin pool
PoolIdentifiers ==
  [u \in {PluginPool[k].marketplaceUrl : k \in 1..Len(PluginPool)} |->
     extractAddonIdentifiers(u)]

\* identifier resolution gives plugin number p an id or a slug
HasKey(p) ==
  \/ ~Falsy(PoolIdentifiers[plugins[p].marketplaceUrl].id)
  \/ ~Falsy(PoolIdentifiers[plugins[p].marketplaceUrl].slug)

\* control is inside the REST tier
InRestTier ==
  pc \in {"t2_entry", "t2_page", "t2_http", "t2_delay", "t2_end", "t2_ok", "t2_catch"}

\* the progress lines of the REST tier written so far
RestProgressLines ==
  SelectSeq(sse, LAMBDA e : e.type = "progress" /\ StartsWith(e.message, "  [Method 2]"))

\* C6: the REST tier is entered only for a plugin whose identifier resolution
\* gave a non-null id or a non-null slug.  For a plugin with neither, the tier is
\* skipped entirely: control is never inside it, no request of it is pending, it
\* contributes no progress line and no error entry, and the rendered-DOM tier
\* starts directly after the failure of the initial-state tier.
C6_RestTierOnlyWithIdOrSlug ==
  /\ \A p \in LoggedPlugins :
       (\E k \in EventsOf(p) : tierLog[k].tier = "rest-api") => HasKey(p)
  /\ \A op \in inflight : op.tier = "rest-api" => HasKey(op.plugin)
  /\ InRestTier => HasKey(i + 1)
  /\ (\A p \in 1..Len(plugins) : ~HasKey(p)) => RestProgressLines = <<>>
  /\ RestProgressLines # <<>> =>
       \E k \in 1..Len(tierLog) : tierLog[k].tier = "rest-api" /\ tierLog[k].ev = "start"
  /\ (Len(results) = i /\ i < Len(plugins) /\ ~HasKey(i + 1)) =>
       \A k \in 1..Len(errors) : ~StartsWith(errors[k], "rest-api")
  /\ \A k \in 1..Len(tierLog) :
       (tierLog[k].tier = "puppeteer" /\ tierLog[k].ev = "start"
          /\ ~HasKey(tierLog[k].plugin)) =>
         /\ k > 1
         /\ tierLog[k - 1] = [plugin |-> tierLog[k].plugin,
                              tier |-> "initial-state", ev |-> "fail"]

\* C6 witness: for a plugin with neither id nor slug the initial-state tier has
\* failed and the rendered-DOM tier is awaiting its new page
C6_Witness ==
  /\ pc = "t3_newPage"
  /\ identifiers = NoIdentifiers
  /\ ~HasKey(i + 1)
  /\ errors # <<>>
  /\ tierLog[Len(tierLog)] = TierEvent("puppeteer", "start")

\* C7: at every moment at most one awaited operation is pending, and a pending
\* tier operation belongs to the plugin the loop is at, all plugins before it
\* having their result appended.  The log of tier entries and exits is a sequence
\* of completed attempts followed by at most one open attempt: every exit closes
\* the entry just before it, every entry follows an exit (or is the first), and
\* the attempts of plugin p come after p - 1 results have been appended.
C7_OnePluginOneTierAtATime ==
  /\ Cardinality(inflight) <= 1
  /\ \A op \in inflight :
       op.tier \in {"initial-state", "rest-api", "puppeteer"} =>
         /\ op.plugin = i + 1
         /\ Len(results) = i
         /\ tierLog # <<>>
         /\ tierLog[Len(tierLog)] = TierEvent(op.tier, "start")
  /\ \A k \in 1..Len(tierLog) :
       /\ Len(results) >= tierLog[k].plugin - 1
       /\ tierLog[k].ev = "start" =>
            /\ k > 1 => tierLog[k - 1].ev \in {"ok", "fail"}
            /\ k > 1 => tierLog[k - 1].plugin <= tierLog[k].plugin
            /\ k = Len(tierLog) => Len(results) = tierLog[k].plugin - 1
       /\ tierLog[k].ev \in {"ok", "fail"} =>
            /\ k > 1
            /\ tierLog[k - 1] = [plugin |-> tierLog[k].plugin,
                                 tier |-> tierLog[k].tier, ev |-> "start"]

\* C7 witness: the second plugin of a batch awaits a REST page after the first
\* plugin's result was appended
C7_Witness ==
  /\ inflight = {[plugin |-> 2, tier |-> "rest-api", op |-> "httpGet"]}
  /\ Len(results) = 1
  /\ i = 1

\* C8: the browser is launched at most once and closed at most once.  Whenever a
\* plugin is being or has been processed the one launch has happened; every
\* rendered-DOM attempt is handed that same session while it is open; close is
\* called only after the last plugin has its result, whatever the plugins'
\* outcomes; and no request ends with the session still open.
C8_BrowserLaunchedOnceClosedOnce ==
  /\ launchCalls <= 1
  /\ closeCalls <= 1
  /\ (tierLog # <<>> \/ results # <<>> \/ i > 0) => launchCalls = 1
  /\ \A u \in sessionsUsed : u.session = 1 /\ u.state = "open"
  /\ closeCalls = 1 =>
       /\ launchCalls = 1
       /\ Len(results) = Len(plugins)
       /\ LoggedPlugins = 1..Len(plugins)
  /\ browser = "open" => (closeCalls = 0 \/ pc = "cc_closing")
  /\ browser = "closed" => closeCalls = 1
  /\ pc = "ended" =>
       /\ browser \in {"none", "closed"}
       /\ browser = "none" => (closeCalls = 0 /\ tierLog = <<>>)

\* C8 witness: a request has ended after a batch of two plugins that both went to
\* the rendered-DOM tier, one of them failing entirely; the session was launched
\* once and closed once
C8_Witness ==
  /\ pc = "ended"
  /\ browser = "closed"
  /\ launchCalls = 1
  /\ closeCalls = 1
  /\ {u.plugin : u \in sessionsUsed} = {1, 2}
  /\ Cardinality(Exhausted) = 1

\* C9: whenever fetchFromPuppeteer returns or throws, the page it opened is
\* closed: no page of the attempt remains open in the session.
C9_PageClosedWhenAttemptEnds ==
  pc \in {"t3_ok", "t3_catch"} => (page # "open" /\ openPages = 0)

\* control has not entered checkCompatibility
OutsideBatch ==
  pc \in {"idle", "rejected", "find", "route_catch", "route_end", "ended"}

\* C10: a request without a target version, or one whose plugin list is empty,
\* is rejected before anything is provisioned: the browser is never launched, no
\* marketplace request is issued, no tier is attempted and checkCompatibility is
\* not entered.  The missing target version is answered with status 400 and no
\* event; the empty list with a single error event and the end of the stream.
C10_InvalidBatchRejectedBeforeAnyActivity ==
  (Falsy(req.targetDCVersion) \/ Len(db) = 0) =>
    /\ OutsideBatch
    /\ launchCalls = 0
    /\ browser = "none"
    /\ ~httpIssued
    /\ tierLog = <<>>
    /\ sessionsUsed = {}
    /\ plugins = <<>>
    /\ results = <<>>
    /\ (Falsy(req.targetDCVersion) /\ pc # "idle") =>
         (pc = "rejected" /\ httpStatus = 400 /\ sse = <<>> /\ inflight = {})
    /\ (~Falsy(req.targetDCVersion) /\ pc = "ended") =>
         (Len(sse) = 1 /\ sse[1].type = "error" /\ ended = 1)

\* C10 witness: the request for a product type without plugins has ended with
\* the error event of the empty list
C10_Witness ==
  /\ pc = "ended"
  /\ Len(db) = 0
  /\ ~Falsy(req.targetDCVersion)
  /\ sse = <<Event("error", "No plugins found for this product type.", <<>>)>>
  /\ launchCalls = 0

\* checkCompatibility was called and its promise rejected
BatchRejected == pc = "route_catch" /\ plugins # <<>>

\* C11: checkCompatibility rejects only when the shared browser session could
\* not be created (the route has already turned away invalid input): whenever it
\* rejects, no session exists and no result has been computed, so no tier
\* failure, no exhausted plugin and nothing after the session was created makes
\* the batch reject or lose results that were already computed.
C11_BatchRejectsOnlyForProvisioning ==
  BatchRejected => (browser = "none" /\ results = <<>> /\ tierLog = <<>>)

\* what a progress message announces: the start of a plugin ("plugin"), the
\* start of a tier (the tier's name), the end of a plugin ("done"), or none of
\* these (Null)
Marker(m) ==
  IF StartsWith(m, "[") THEN "plugin"
  ELSE IF StartsWith(m, "  [Method 1] Fetching") THEN "initial-state"
  ELSE IF StartsWith(m, "  [Method 2] REST API using key") THEN "rest-api"
  ELSE IF StartsWith(m, "  [Method 3] Browser rendering") THEN "puppeteer"
  ELSE IF StartsWith(m, "  OK Found ") \/ StartsWith(m, "  X Error: ") THEN "done"
  ELSE Null

\* the progress messages written so far, in order
ProgressMessages ==
  LET evs == SelectSeq(sse, LAMBDA e : e.type = "progress")
  IN  [k \in 1..Len(evs) |-> evs[k].message]

\* the markers of the progress messages written so far, in order
Markers ==
  LET ms == [k \in 1..Len(ProgressMessages) |-> Marker(ProgressMessages[k])]
  IN  SelectSeq(ms, LAMBDA x : x # Null)

\* control is inside the loop body of checkCompatibility
InLoopBody ==
  pc \notin {"idle", "rejected", "find", "route_complete", "route_catch",
             "route_end", "ended", "cc_entry", "cc_execPath", "cc_launch",
             "cc_loop", "cc_sleep", "cc_close", "cc_closing"}

\* the number of plugins whose iteration has begun
Begun == Len(results) + (IF InLoopBody THEN 1 ELSE 0)

\* the iteration of plugin p has produced its result
Finished(p) == p <= Len(results) \/ (p = Len(results) + 1 /\ pc = "cc_push")

RECURSIVE ExpectedMarkers(_)
\* the markers that processing the plugins p, p + 1, ... as recorded in tierLog
\* and results calls for
ExpectedMarkers(p) ==
  IF p > Begun THEN <<>>
  ELSE <<"plugin">> \o TiersWith(p, "start")
       \o (IF Finished(p) THEN <<"done">> ELSE <<>>)
       \o ExpectedMarkers(p + 1)

\* the "Processing" line of plugin p
ProcessingLine(p) ==
  "[" \o ToString(p) \o "/" \o ToString(Len(plugins)) \o "] Processing: "
  \o plugins[p].name

\* C12: the progress sink receives, for every plugin in processing order, the
\* plugin's "Processing" line before its first tier attempt, one start line per
\* tier attempt in the order of the attempts, and one closing line (found or
\* error) after its last attempt; all lines of plugin p precede those of
\* plugin p + 1.
C12_ProgressFollowsProcessingOrder ==
  /\ Markers = ExpectedMarkers(1)
  /\ LET lines == SelectSeq(ProgressMessages, LAMBDA m : Marker(m) = "plugin")
     IN  \A p \in 1..Len(lines) : lines[p] = ProcessingLine(p)

\* C12 witness: the loop is over for two plugins, the first of which went
\* through all three tiers and failed, the second succeeding at once
C12_Witness ==
  /\ pc = "cc_close"
  /\ Len(results) = 2
  /\ results[1].fetchMethod = "failed"
  /\ results[2].fetchMethod = "initial-state"
  /\ Markers = <<"plugin", "initial-state", "rest-api", "puppeteer", "done",
                 "plugin", "initial-state", "done">>

\* some progress message written so far contains the text
Surfaced(text) ==
  \E k \in 1..Len(ProgressMessages) : Includes(ProgressMessages[k], text)

\* C13: when the iteration of a plugin has produced its result, the progress
\* sink has received the outcome of every tier that was attempted for it: the
\* tagged failure reason of every tier that failed, also when a later tier
\* succeeded.
C13_EveryTierOutcomeSurfaced ==
  pc = "cc_push" => \A k \in 1..Len(errors) : Surfaced(errors[k])

\* the call of function f on its own has returned
FnReturned(f) == call.fn = f /\ ret # <<>>

\* the pluginVersion of every entry of a list of kept entries
PluginVersions(cv) == {cv[k].pluginVersion : k \in 1..Len(cv)}

\* C14: in every result of buildResult recommendedVersion is null exactly when
\* compatibleVersions is empty; otherwise it is the pluginVersion of an entry
\* of compatibleVersions and no entry compares greater than it.  For the raw
\* versions 1.0, 2.0, 3.0 of which only 2.0 and 3.0 cover the target 8.5 and
\* the current version 1.0, the result recommends 3.0, has the range
\* "2.0 - 3.0" and is not compatible.
C14_RecommendedIsMaximalKept ==
  FnReturned("buildResult") =>
    LET r  == ret[1]
        cv == r.compatibleVersions
    IN  /\ (r.recommendedVersion = Null) <=> (cv = <<>>)
        /\ cv # <<>> =>
             /\ r.recommendedVersion \in PluginVersions(cv)
             /\ \A v \in PluginVersions(cv) : compareVersions(v, r.recommendedVersion) <= 0
        /\ (/\ call.args[2] = <<RawOld, RawMid, RawNew>>
            /\ call.args[3] = "8.5"
            /\ call.args[1].currentVersion = "1.0") =>
             /\ r.recommendedVersion = "3.0"
             /\ r.compatibleVersionRange = "2.0 - 3.0"
             /\ r.compatible = JsFalse

C14_Witness ==
  /\ FnReturned("buildResult")
  /\ call.args[2] = <<RawOld, RawMid, RawNew>>
  /\ call.args[3] = "8.5"
  /\ call.args[1].currentVersion = "1.0"
  /\ ret[1].recommendedVersion = "3.0"
  /\ Len(ret[1].compatibleVersions) = 2

\* the bounds of a raw record: its own, or when one of them is missing the
\* ones parsed from its compatibility text
BoundsOf(v) ==
  IF ~Falsy(v.minVersion) /\ ~Falsy(v.maxVersion)
    THEN <<v.minVersion, v.maxVersion>>
  ELSE <<parseCompatibilityString(v.compatibility).minVersion,
         parseCompatibilityString(v.compatibility).maxVersion>>

\* both bounds of the raw record resolve and its range contains the target
Covers(v, target) ==
  /\ ~Falsy(BoundsOf(v)[1])
  /\ ~Falsy(BoundsOf(v)[2])
  /\ isVersionInRange(target, BoundsOf(v)[1], BoundsOf(v)[2])

\* BoundsOf and Covers of every record and target of the input sets
RawBounds == [v \in RawPool |-> BoundsOf(v)]
RawCovers == [v \in RawPool |-> [t \in Targets |-> Covers(v, t)]]

\* C15: in every result of buildResult compatible is true if and only if some
\* entry of compatibleVersions has a pluginVersion that compares equal to
\* currentVersion; when every raw record that compares equal to currentVersion
\* has a range that does not contain the target, compatible is false.
C15_CompatibleIffCurrentVersionKept ==
  FnReturned("buildResult") =>
    LET r   == ret[1]
        raw == call.args[2]
        cur == call.args[1].currentVersion
    IN  /\ r.compatible \in {JsTrue, JsFalse}
        /\ (r.compatible = JsTrue) <=>
             \E v \in PluginVersions(r.compatibleVersions) : compareVersions(v, cur) = 0
        /\ (\A k \in 1..Len(raw) :
              compareVersions(raw[k].version, cur) = 0 => ~RawCovers[raw[k]][call.args[3]])
             => r.compatible = JsFalse

C15_Witness ==
  /\ FnReturned("buildResult")
  /\ call.args[2] = <<RawOld, RawMidPatch>>
  /\ call.args[3] = "8.5"
  /\ call.args[1].currentVersion = "2.0"
  /\ ret[1].compatible = JsTrue
  /\ PluginVersions(ret[1].compatibleVersions) = {"2.0.0"}

\* the entry of compatibleVersions that belongs to raw record v
IsEntryOf(e, v) ==
  /\ e.pluginVersion = v.version
  /\ e.compatibilityRange = RawBounds[v][1] \o " - " \o RawBounds[v][2]

\* C16: buildResult puts a raw record into compatibleVersions if and only if
\* its bounds resolve (the record's own, or the ones parsed from its
\* compatibility text when the record lacks a bound) and isVersionInRange holds
\* for the target and the resolved bounds: compatibleVersions has one entry per
\* such record and no other entry, so every entry has both bounds resolved and
\* a range that contains the target.
C16_KeptIffBoundsResolveAndCoverTarget ==
  FnReturned("buildResult") =>
    LET cv  == ret[1].compatibleVersions
        raw == call.args[2]
        t   == call.args[3]
    IN  /\ Len(cv) = Cardinality({k \in 1..Len(raw) : RawCovers[raw[k]][t]})
        /\ \A k \in 1..Len(raw) :
             RawCovers[raw[k]][t] <=> \E j \in 1..Len(cv) : IsEntryOf(cv[j], raw[k])
        /\ \A j \in 1..Len(cv) :
             \E k \in 1..Len(raw) : RawCovers[raw[k]][t] /\ IsEntryOf(cv[j], raw[k])

C16_Witness ==
  /\ FnReturned("buildResult")
  /\ call.args[2] = <<RawText, RawHalf, RawNoBounds>>
  /\ call.args[3] = "8.5"
  /\ Len(ret[1].compatibleVersions) = 1
  /\ ret[1].compatibleVersions[1].pluginVersion = "1.0"
  /\ ret[1].compatibleVersions[1].compatibilityRange = "8.0 - 9.0"

\* C17: in every result of buildResult compatibleVersionRange is null when no
\* record was kept; otherwise, with v1 a version-minimal and v2 a
\* version-maximal kept entry, it is the single version string v1 when v1 and
\* v2 compare equal and "v1 - v2" when they do not.
C17_RangeIsSingleVersionWhenExtremesCompareEqual ==
  FnReturned("buildResult") =>
    LET r  == ret[1]
        vs == PluginVersions(r.compatibleVersions)
        lo == {v \in vs : \A w \in vs : compareVersions(v, w) <= 0}
        hi == {v \in vs : \A w \in vs : compareVersions(v, w) >= 0}
    IN  /\ (r.compatibleVersionRange = Null) <=> (vs = {})
        /\ vs # {} =>
             IF \E v1 \in lo, v2 \in hi : compareVersions(v1, v2) = 0
               THEN r.compatibleVersionRange \in vs
             ELSE \E v1 \in lo, v2 \in hi : r.compatibleVersionRange = v1 \o " - " \o v2

\* C18: for all version strings a, b, c, empty and absent ones included,
\* compareVersions returns -1, 0 or 1, compareVersions(a, b) is the negation
\* of compareVersions(b, a), compareVersions(a, a) is 0, and a <= b and b <= c
\* imply a <= c.
C18_CompareVersionsIsTotalPreorder ==
  FnReturned("compareVersions") =>
    \A x, y, z \in 1..3 :
      /\ ret[1][x][y] \in {-1, 0, 1}
      /\ ret[1][x][y] = 0 - ret[1][y][x]
      /\ ret[1][x][x] = 0
      /\ (ret[1][x][y] <= 0 /\ ret[1][y][z] <= 0) => ret[1][x][z] <= 0

C18_Witness ==
  /\ FnReturned("compareVersions")
  /\ call.args = <<Null, "8.1", "8a">>
  /\ ret[1][1][2] = -1
  /\ ret[1][2][3] = -1
  /\ ret[1][1][3] = -1
  /\ ret[1][3][1] = 1

\* segment k of a version, {num: 0, alpha: ""} beyond its last segment
SegmentAt(v, k) ==
  IF k <= Len(parseVersion(v)) THEN parseVersion(v)[k] ELSE [num |-> 0, alpha |-> ""]

\* segment s is before segment t: smaller number, or the same number and a
\* remainder that is empty or lexicographically smaller
SegmentBefore(s, t) ==
  \/ s.num < t.num
  \/ /\ s.num = t.num
     /\ s.alpha # t.alpha
     /\ (s.alpha = "" \/ (t.alpha # "" /\ StrLess(s.alpha, t.alpha)))

\* the reference order: decided by the first position where the padded
\* segment lists differ
ReferenceOrder(a, b) ==
  LET n    == IF Len(parseVersion(a)) > Len(parseVersion(b))
                THEN Len(parseVersion(a)) ELSE Len(parseVersion(b))
      diff == {k \in 1..n : SegmentAt(a, k) # SegmentAt(b, k)}
      k    == CHOOSE d \in diff : \A e \in diff : d <= e
  IN  IF diff = {} THEN 0
      ELSE IF SegmentBefore(SegmentAt(a, k), SegmentAt(b, k)) THEN -1 ELSE 1

ReferenceTable ==
  [a \in VersionStrings |-> [b \in VersionStrings |-> ReferenceOrder(a, b)]]

\* b is a with one more zero segment
ZeroExtended(a, b) == a \notin {Null, ""} /\ b \notin {Null, ""} /\ b = a \o ".0"

\* C19: compareVersions agrees with the reference order on every pair of
\* version strings (segments compared left to right, the shorter operand
\* padded with {num: 0, alpha: ""}, numbers as integers, then the remainders
\* with the empty one first and the others lexicographically); so
\* "8.1" < "8.10", "8" < "8a", "2.0.0" equals "2.0", and appending a zero
\* segment to a version changes no comparison.
C19_CompareVersionsAgreesWithReferenceOrder ==
  FnReturned("compareVersions") =>
    \A x, y \in 1..3 :
      /\ ret[1][x][y] = ReferenceTable[call.args[x]][call.args[y]]
      /\ (call.args[x] = "8.1" /\ call.args[y] = "8.10") => ret[1][x][y] = -1
      /\ (call.args[x] = "8" /\ call.args[y] = "8a") => ret[1][x][y] = -1
      /\ (call.args[x] = "2.0.0" /\ call.args[y] = "2.0") => ret[1][x][y] = 0
      /\ ZeroExtended(call.args[x], call.args[y]) =>
           /\ ret[1][x][y] = 0
           /\ \A z \in 1..3 : ret[1][x][z] = ret[1][y][z]

C19_Witness ==
  /\ FnReturned("compareVersions")
  /\ call.args = <<"2.0", "2.0.0", "8B">>
  /\ ret[1][1][2] = 0
  /\ ret[1][1][3] = -1
  /\ ret[1][2][3] = -1

\* C20: isVersionInRange(target, min, max) is true if and only if none of the
\* three is empty or absent, compareVersions(target, min) >= 0 and
\* compareVersions(target, max) <= 0; so ("8.5", "8.0", "9.0") is true,
\* ("9.1", "8.0", "9.0") is false and (x, null, "9.0") is false for every x.
C20_InRangeIffAllPresentAndBetween ==
  FnReturned("isVersionInRange") =>
    /\ ret[1] <=> /\ \A k \in 1..3 : call.args[k] \notin {Null, ""}
                  /\ compareVersions(call.args[1], call.args[2]) >= 0
                  /\ compareVersions(call.args[1], call.args[3]) <= 0
    /\ call.args = <<"8.5", "8.0", "9.0">> => ret[1]
    /\ call.args = <<"9.1", "8.0", "9.0">> => ~ret[1]
    /\ (call.args[2] = Null /\ call.args[3] = "9.0") => ~ret[1]

C20_Witness ==
  /\ FnReturned("isVersionInRange")
  /\ call.args = <<"8.5", "8.0", "9.0">>
  /\ ret = <<TRUE>>

\* the dotted version tokens of every text of the input set
TokensOf == [text \in CompatTexts |-> extractVersionTokens(text)]

\* C21: parseCompatibilityString returns null bounds when the text has no
\* dotted version token, min = max = the token when it has exactly one, and
\* otherwise the first and the last token, swapped when the first compares
\* greater than the last; so non-null bounds always satisfy
\* compareVersions(minVersion, maxVersion) <= 0, and "9.0 - 8.0" yields
\* min "8.0" and max "9.0".
C21_ParsedBoundsAreFirstAndLastTokenInOrder ==
  FnReturned("parseCompatibilityString") =>
    LET r      == ret[1]
        tokens == TokensOf[call.args[1]]
        first  == tokens[1]
        last   == tokens[Len(tokens)]
    IN  /\ \A k \in 1..Len(tokens) : Includes(tokens[k], ".")
        /\ tokens = <<>> => (r.minVersion = Null /\ r.maxVersion = Null)
        /\ Len(tokens) = 1 => (r.minVersion = first /\ r.maxVersion = first)
        /\ Len(tokens) > 1 =>
             IF compareVersions(first, last) > 0
               THEN r.minVersion = last /\ r.maxVersion = first
             ELSE r.minVersion = first /\ r.maxVersion = last
        /\ (r.minVersion = Null) <=> (r.maxVersion = Null)
        /\ r.minVersion # Null => compareVersions(r.minVersion, r.maxVersion) <= 0
        /\ call.args[1] = "9.0 - 8.0" => (r.minVersion = "8.0" /\ r.maxVersion = "9.0")

C21_Witness ==
  /\ FnReturned("parseCompatibilityString")
  /\ call.args[1] = "8.10 - 8.9"
  /\ ret[1].minVersion = "8.9"
  /\ ret[1].maxVersion = "8.10"

\* the non-empty path segments of every well-formed URL of the input set,
\* <<>> for a malformed one
PathSegments ==
  [u \in UrlStrings |->
     IF UrlValid(u)
       THEN SelectSeq(Split(UrlPathname(u), "/"), LAMBDA seg : seg # "")
     ELSE <<>>]

\* C22: extractAddonIdentifiers always returns an {id, slug} object.  For a
\* URL whose path has an `apps` segment followed by an all-digit segment, id
\* is that segment and slug is the segment after it, or null when there is
\* none or it is 'version-history' or 'overview'; for a URL without an `apps`
\* segment and for a malformed URL it returns {id: null, slug: null}.
C22_IdentifiersFromAppsSegment ==
  FnReturned("extractAddonIdentifiers") =>
    LET r    == ret[1]
        segs == PathSegments[call.args[1]]
        a    == SeqIndexOf(segs, "apps", 1)
    IN  /\ DOMAIN r = {"id", "slug"}
        /\ a = 0 => r = [id |-> Null, slug |-> Null]
        /\ (a > 0 /\ a + 1 <= Len(segs) /\ AllDigits(segs[a + 1])) =>
             /\ r.id = segs[a + 1]
             /\ r.slug = IF a + 2 <= Len(segs)
                            /\ segs[a + 2] \notin {"version-history", "overview"}
                           THEN segs[a + 2] ELSE Null
        /\ call.args[1] = "https://marketplace.atlassian.com/apps/1215215/scriptrunner"
             => r = [id |-> "1215215", slug |-> "scriptrunner"]
        /\ call.args[1] \in {Null, "", "not a url"} => r = [id |-> Null, slug |-> Null]

C22_Witness ==
  /\ FnReturned("extractAddonIdentifiers")
  /\ call.args[1] = "https://marketplace.atlassian.com/apps/1215215/overview"
  /\ ret[1] = [id |-> "1215215", slug |-> Null]

\* s ends with the text t
EndsWith(s, t) == Len(s) >= Len(t) /\ SubSeq(s, Len(s) - Len(t) + 1, Len(s)) = t

\* C23: normalizeVersionHistoryUrl returns a URL that ends with the fixed
\* parameter ?versionHistoryHosting=dataCenter and has no other query string
\* (the query string of the input is gone), whose path ends with the
\* /version-history segment, appended after a trailing slash was stripped when
\* the input did not have the segment.
C23_NormalizedUrlHasOnlyTheFixedQuery ==
  FnReturned("normalizeVersionHistoryUrl") =>
    LET out  == ret[1]
        base == SubSeq(out, 1, Len(out) - Len("?versionHistoryHosting=dataCenter"))
    IN  /\ EndsWith(out, "?versionHistoryHosting=dataCenter")
        /\ IndexOf(base, "?", 1) = 0
        /\ EndsWith(base, "/version-history")
        /\ ~EndsWith(base, "//version-history")

\* a page request of the current fetchFromAPI call failed or was answered
\* with a body that is not JSON
PageFailed == \E k \in 1..Len(apiLog) : apiLog[k].ev = "response" /\ apiLog[k].count = -1

\* C24: fetchFromAPI returns no records when a page request yields a non-200
\* answer or malformed JSON, also when earlier pages delivered qualifying
\* records: the failure leaves the loop at once and what was gathered is not
\* returned.  It requests no page without a key, and it returns only a
\* non-empty list, all the records gathered over pages that were all answered.
C24_RestFailureDiscardsPartialResults ==
  /\ pc \in {"t2_page", "t2_http", "t2_delay", "t2_end", "t2_ok"} =>
       (~PageFailed /\ ~Falsy(resourceKey))
  /\ pc = "t2_catch" =>
       /\ versions = <<>>
       /\ method = Null
       /\ \/ PageFailed /\ apiLog[Len(apiLog)].count = -1
          \/ thrown = "API returned 0 DC versions" /\ allVersions = <<>>
          \/ thrown = "No ID or slug found" /\ Falsy(resourceKey)
  /\ (pc = "t2_ok" \/ method = "rest-api") =>
       (~PageFailed /\ versions # <<>> /\ versions = allVersions)

C24_Witness ==
  /\ pc = "t2_catch"
  /\ PageFailed
  /\ allVersions # <<>>
  /\ versions = <<>>
  /\ thrown = "HTTP 404"

\* the entries of apiLog follow the loop of fetchFromAPI: the first request is
\* at offset 0; an answer follows the request at the same offset; a delay
\* follows only an answer of exactly LIMIT items; a further request follows
\* only a delay and is at the next offset; nothing follows an answer of fewer
\* than LIMIT items or a failure
PaginationInOrder ==
  \A k \in 1..Len(apiLog) :
    /\ apiLog[k].ev = "request" =>
         IF k = 1 THEN apiLog[k].offset = 0
         ELSE /\ k >= 4
              /\ apiLog[k - 1].ev = "delay"
              /\ apiLog[k - 2].ev = "response"
              /\ apiLog[k - 2].count = LIMIT
              /\ apiLog[k].offset = apiLog[k - 2].offset + LIMIT
    /\ apiLog[k].ev = "response" =>
         /\ k >= 2
         /\ apiLog[k - 1].ev = "request"
         /\ apiLog[k - 1].offset = apiLog[k].offset
         /\ apiLog[k].count # LIMIT => k = Len(apiLog)
    /\ apiLog[k].ev = "delay" =>
         /\ k >= 3
         /\ apiLog[k - 1].ev = "response"
         /\ apiLog[k - 1].count = LIMIT

InitialStateFailsOrReturnsRecords ==
  \A html \in {PageNoMarker, PageBadJson, PageNoVersions, PageEncoded, PagePlain} :
    LET out == InitialStateOutcome(html)
    IN  /\ ~html.marker => out.error = "initial-state script tag not found"
        /\ (html.marker /\ html.json = "bad") => out.error = "initial-state JSON parse failed"
        /\ (html.marker /\ html.json # "bad" /\ walkInitialState(html.nodes) = <<>>) =>
             out.error = "No version data found in initial-state"
        /\ out.error = Null => (out.versions # <<>> /\ out.versions = walkInitialState(html.nodes))
        /\ out.error # Null => out.versions = <<>>

\* C26: each tier either fails or returns at least one record:
\* fetchFromInitialState fails without the marker, with unparsable JSON and
\* with zero collected nodes, fetchFromAPI fails with zero qualifying records,
\* fetchFromPuppeteer fails with zero rows.  So whenever fetchAllVersions has
\* returned, its versions list is non-empty, and every built result has
\* totalVersionsChecked >= 1.
C26_TierFailsOrReturnsRecords ==
  /\ InitialStateFailsOrReturnsRecords
  /\ thrown = "API returned 0 DC versions" => allVersions = <<>>
  /\ thrown = "No rows found. DOM selector mismatch." => rows = <<>>
  /\ pc \in {"t1_ok", "t2_ok", "t3_ok", "cc_build"} => versions # <<>>
  /\ pc = "t2_ok" => allVersions # <<>>
  /\ pc = "t3_ok" => rows # <<>>
  /\ method # Null => versions # <<>>
  /\ (pc = "cc_push" /\ result.fetchMethod # "failed") =>
       (result.totalVersionsChecked >= 1 /\ result.allVersions = versions)
  /\ \A k \in 1..Len(results) :
       results[k].fetchMethod # "failed" => results[k].totalVersionsChecked >= 1

C26_Witness ==
  /\ pc = "cc_push"
  /\ errors = <<"initial-state: No version data found in initial-state",
                "rest-api: API returned 0 DC versions">>
  /\ result.fetchMethod = "puppeteer"
  /\ result.totalVersionsChecked = 2

\* C27: httpGet settles for every upstream, also for one that answers every
\* request with a redirect: each call of httpGet leads to its promise being
\* resolved or rejected.
C27_HttpGetSettles == (call.fn = "httpGet") ~> (ret # <<>>)

\* the positions of sse that hold an event of one of the given types
EventsOfType(types) == {k \in 1..Len(sse) : sse[k].type \in types}

\* C28: for a request that passed parameter validation the stream carries at
\* most one 'start' event, which precedes every 'progress' event, and at most
\* one terminal event ('complete' or 'error'), after which nothing is written;
\* the stream is ended at most once, only after the terminal event, and when
\* the handler is done it carries exactly one terminal event and was ended
\* exactly once, whether the batch returned results, the lookup found nothing
\* or failed, or checkCompatibility rejected.
C28_OneStartOneTerminalEventOneEnd ==
  /\ Cardinality(EventsOfType({"start"})) <= 1
  /\ \A k \in EventsOfType({"progress"}) : \E j \in EventsOfType({"start"}) : j < k
  /\ Cardinality(EventsOfType({"complete", "error"})) <= 1
  /\ \A k \in EventsOfType({"complete", "error"}) : k = Len(sse)
  /\ \A k \in 1..Len(sse) : sse[k].type \in {"start", "progress", "complete", "error"}
  /\ ended <= 1
  /\ ended = 1 => (pc = "ended" /\ EventsOfType({"complete", "error"}) # {})
  /\ EventsOfType({"complete", "error"}) # {} => pc \in {"route_end", "ended"}
  /\ sse # <<>> => httpStatus = 200
  /\ (pc = "ended" /\ httpStatus = 200) =>
       (ended = 1 /\ Cardinality(EventsOfType({"complete", "error"})) = 1)

C28_Witness ==
  /\ pc = "ended"
  /\ ended = 1
  /\ Len(sse) > 2
  /\ sse[1].type = "start"
  /\ sse[2].type = "progress"
  /\ sse[Len(sse)].type = "error"

\* what extractAddonIdentifiers returns for each marketplace URL
IdentifiersTable == [u \in UrlStrings |-> extractAddonIdentifiers(u)]

\* the id that identifier resolution gives plugin number p
ResolvedId(p) == PoolIdentifiers[plugins[p].marketplaceUrl].id

C30_CompatibleVersionsSortedDescending ==
  FnReturned("buildResult") =>
    LET r   == ret[1]
        cv  == r.compatibleVersions
        raw == call.args[2]
        t   == call.args[3]
    IN  /\ \A j \in 1..Len(cv) : \A k \in j..Len(cv) :
             compareVersions(cv[j].pluginVersion, cv[k].pluginVersion) >= 0
        /\ cv # <<>> => cv[1].pluginVersion = r.recommendedVersion
        /\ Len(cv) = Cardinality({k \in 1..Len(raw) : RawCovers[raw[k]][t]})
        /\ \A v \in RawPool :
             RawCovers[v][t] =>
               Cardinality({j \in 1..Len(cv) : IsEntryOf(cv[j], v)}) =
                 Cardinality({k \in 1..Len(raw) : raw[k] = v})

C30_Witness ==
  /\ FnReturned("buildResult")
  /\ call.args[2] = <<RawMid, RawNew, RawMid>>
  /\ call.args[3] = "8.5"
  /\ Len(ret[1].compatibleVersions) = 3
  /\ ret[1].compatibleVersions[1].pluginVersion = "3.0"
  /\ ret[1].compatibleVersions[2].pluginVersion = "2.0"
  /\ ret[1].compatibleVersions[3].pluginVersion = "2.0"
  /\ ret[1].recommendedVersion = "3.0"

\* the detail rows of plugin `name` that the report marks as the current version
RowsMarkedCurrent(sheet, name) ==
  {k \in 1..Len(sheet) :
     Len(sheet[k]) = 7 /\ sheet[k][1] = name /\ sheet[k][7] = "[x] Yes"}

\* C31: for every result with compatible = true that buildResult produced,
\* generateExcel marks at least one row of that plugin's compatibleVersions as
\* the current version on the details sheet.
C31_ReportMarksCurrentVersionWhenCompatible ==
  FnReturned("generateExcel") =>
    \A k \in 1..Len(call.args[1]) :
      call.args[1][k].compatible = JsTrue =>
        RowsMarkedCurrent(ret[1].wsDetails, call.args[1][k].pluginName) # {}

\* the report marks a row exactly when the version texts are the same string,
\* so a compatible result whose kept entry has the text of currentVersion has
\* a marked row
ReportMarksWhenTextsAgree ==
  FnReturned("generateExcel") =>
    \A k \in 1..Len(call.args[1]) :
      LET r == call.args[1][k]
      IN  (RowsMarkedCurrent(ret[1].wsDetails, r.pluginName) # {}) <=>
            (\E j \in 1..Len(r.compatibleVersions) :
               r.compatibleVersions[j].pluginVersion = r.currentVersion)

====
